---- MODULE Spec2Model ----
(***************************************************************************)
(* Turn-based combat of project-zorg: core/managers/combat_manager.py      *)
(* (CombatManager) over core/models.py (Personagem), with the exception    *)
(* wrapper of utils/error_handler.py.                                      *)
(*                                                                         *)
(* A Personagem is a record; the Characters that exist are the entries of  *)
(* chars (objects are mutated in place, the session only refers to them).  *)
(* An Optional value is a sequence of length 0 (None) or 1.                *)
(* Each public call of the manager is one action; random.randint and      *)
(* random.choice results are inputs of the action.                         *)
(***************************************************************************)
EXTENDS Integers, Sequences, FiniteSets, TLC

VARIABLES
    chars,            \* id -> Personagem record (the live objects)
    current_combat,   \* CombatManager._current_combat: <<>> or <<session>>
    lastCall,         \* name of the public method called by the last step
    outcome,          \* "ok" when that call returned, else the exception it raised
    emitted,          \* events passed to emit_event during that call, in order
    started,          \* number of start_combat calls that succeeded (history)
    fallen,           \* Characters whose hp was 0 at some point of the current session (history)
    calc              \* scratch record of the damage-formula specification

vars == <<chars, current_combat, lastCall, outcome, emitted, started, fallen, calc>>

-----------------------------------------------------------------------------
(* Bounds of the model *)

MaxLog == 3          \* a call that would make the log longer than this is not explored
MaxSessions == 2     \* start_combat is explored while fewer sessions than this were started

-----------------------------------------------------------------------------
(* Program constants *)

base_crit_chance == 15
escape_base_chance == 60
CritMultTimes4 == 7        \* crit_multiplier 1.75, as quarters
DefesaBuffBonus == 5
BuffDefesaTurns == 3
FuriaTurns == 4
RegeneracaoTurns == 5
RegenPerTurn == 5
PoisonTurnsApplied == 3
EscapeMin == 10
EscapeMax == 90
EnemyPoisonChance == 50
EnemySkillChance == 60

TipoHabilidadeMembers == {"ATAQUE", "CURA", "BUFF_DEFESA", "BUFF_ATAQUE", "DEBUFF"}

ONGOING == "ongoing"
PLAYER_WIN == "player_win"
PLAYER_DEAD == "player_dead"
ESCAPED == "escaped"

CombatAction == {"attack", "skill", "item", "escape"}

\* ZorgException and its subclasses (core/exceptions.py)
ZorgExceptions == {"ZorgException", "CombatError", "InvalidActionError",
                   "ResourceNotFoundError", "InsufficientResourcesError",
                   "CharacterStateError"}

None == "None"

-----------------------------------------------------------------------------
(* Arithmetic helpers *)

Min(a, b) == IF a <= b THEN a ELSE b
Max(a, b) == IF a >= b THEN a ELSE b

\* Python int(x) on the exact quotient n/d, d > 0: truncation toward zero
IntTrunc(n, d) == IF n >= 0 THEN n \div d ELSE -((-n) \div d)

-----------------------------------------------------------------------------
(* Personagem: properties and methods (core/models.py) *)

ataque_total(ch) == ch.ataque_base + ch.arma_bonus_ataque

defesa_total(ch) ==
    ch.defesa_base + ch.armadura_bonus_defesa + ch.escudo_bonus_defesa
        + (IF ch.turnos_buff_defesa > 0 THEN DefesaBuffBonus ELSE 0)

is_alive(ch) == ch.hp > 0
is_dead(ch) == ch.hp <= 0
is_poisoned(ch) == ch.turnos_veneno > 0

\* hp_percentage < pct, without floats: (hp / hp_max) * 100 < pct
HpPctBelow(ch, pct) ==
    IF ch.hp_max > 0 THEN ch.hp * 100 < pct * ch.hp_max ELSE 0 < pct
HpPctAbove(ch, pct) ==
    IF ch.hp_max > 0 THEN ch.hp * 100 > pct * ch.hp_max ELSE 0 > pct

\* heal on a living character; the caller handles the dead case (raise)
heal(ch, amount) == [ch EXCEPT !.hp = Min(ch.hp_max, ch.hp + amount)]
heal_returned(ch, amount) == Min(ch.hp_max, ch.hp + amount) - ch.hp

\* heal that does not look at whether the Character is dead
heal_call_heals_dead(ch, amount) ==
    [ch |-> heal(ch, amount), returned |-> heal_returned(ch, amount), exc |-> ""]

\* the whole heal method: the Character after it, what it returns, what it raises
heal_call(ch, amount) ==
    IF is_dead(ch)
    THEN [ch |-> ch, returned |-> 0, exc |-> "CharacterStateError"]
    ELSE [ch |-> heal(ch, amount), returned |-> heal_returned(ch, amount), exc |-> ""]

restore_mp(ch, amount) == [ch EXCEPT !.mp = Min(ch.mp_max, ch.mp + amount)]
restore_mp_returned(ch, amount) == Min(ch.mp_max, ch.mp + amount) - ch.mp

\* take_damage without the lower clamp
take_damage_unclamped(ch, damage) == [ch EXCEPT !.hp = ch.hp - damage]

\* take_damage for damage >= 0 (damage < 0 raises ValueError before any change)
take_damage(ch, damage) == [ch EXCEPT !.hp = Max(0, ch.hp - damage)]
\* the returned damage without the cap at the current hp
take_damage_returned_uncapped(ch, damage) == damage

take_damage_returned(ch, damage) == Min(damage, ch.hp)

\* the whole take_damage method: the Character after it, what it returns, what it raises
take_damage_call(ch, damage) ==
    IF damage < 0
    THEN [ch |-> ch, returned |-> 0, exc |-> "ValueError"]
    ELSE [ch |-> take_damage(ch, damage), returned |-> take_damage_returned(ch, damage),
          exc |-> ""]

spend_mp_returned(ch, cost) == ch.mp >= cost
spend_mp(ch, cost) == IF ch.mp >= cost THEN [ch EXCEPT !.mp = ch.mp - cost] ELSE ch

\* the test without the MP comparison
can_use_skill_ignores_mp(ch, skill) ==
    /\ ch.nivel >= skill.nivel_requerido
    /\ \E i \in 1..Len(ch.habilidades_conhecidas) : ch.habilidades_conhecidas[i] = skill

can_use_skill(ch, skill) ==
    /\ ch.mp >= skill.custo_mp
    /\ ch.nivel >= skill.nivel_requerido
    /\ \E i \in 1..Len(ch.habilidades_conhecidas) : ch.habilidades_conhecidas[i] = skill

\* index of the first element of seq satisfying the name test, 0 when there is none
FirstNamed(seq, nome) ==
    IF \E i \in 1..Len(seq) : seq[i].nome = nome
    THEN CHOOSE i \in 1..Len(seq) :
            /\ seq[i].nome = nome
            /\ \A j \in 1..(i - 1) : seq[j].nome # nome
    ELSE 0

RemoveAt(seq, i) == SubSeq(seq, 1, i - 1) \o SubSeq(seq, i + 1, Len(seq))

\* the removal that drops the whole stack it finds
remove_item_drops_stack(ch, item_name, quantity) ==
    LET inv == ch.inventario
        hits == {i \in 1..Len(inv) : inv[i].nome = item_name /\ inv[i].quantidade >= quantity}
    IN  IF hits = {} THEN ch
        ELSE [ch EXCEPT !.inventario = RemoveAt(inv, CHOOSE k \in hits : \A j \in hits : k <= j)]

remove_item_from_inventory(ch, item_name, quantity) ==
    LET inv == ch.inventario
        hits == {i \in 1..Len(inv) : inv[i].nome = item_name /\ inv[i].quantidade >= quantity}
    IN  IF hits = {} THEN ch
        ELSE LET i == CHOOSE k \in hits : \A j \in hits : k <= j
                 left == inv[i].quantidade - quantity
             IN  IF left <= 0
                 THEN [ch EXCEPT !.inventario = RemoveAt(inv, i)]
                 ELSE [ch EXCEPT !.inventario = [inv EXCEPT ![i].quantidade = left]]

\* process_status_effects: the four effects in the order of the source.
\* Each stage maps [ch, messages] to [ch, messages].
\* the poison step that keeps dano_por_turno_veneno when the poison ends
StatusPoison_keeps_damage(s) ==
    LET ch == s.ch IN
    IF ch.turnos_veneno > 0
    THEN LET hit == [ch EXCEPT !.hp = Max(0, ch.hp - ch.dano_por_turno_veneno),
                               !.turnos_veneno = ch.turnos_veneno - 1]
             m1 == Append(s.messages, "poison_damage")
         IN  IF hit.turnos_veneno <= 0
             THEN [ch |-> hit, messages |-> Append(m1, "poison_cured")]
             ELSE [ch |-> hit, messages |-> m1]
    ELSE s

StatusPoison(s) ==
    LET ch == s.ch IN
    IF ch.turnos_veneno > 0
    THEN LET hit == [ch EXCEPT !.hp = Max(0, ch.hp - ch.dano_por_turno_veneno),
                               !.turnos_veneno = ch.turnos_veneno - 1]
             m1 == Append(s.messages, "poison_damage")
         IN  IF hit.turnos_veneno <= 0
             THEN [ch |-> [hit EXCEPT !.dano_por_turno_veneno = 0],
                   messages |-> Append(m1, "poison_cured")]
             ELSE [ch |-> hit, messages |-> m1]
    ELSE s

StatusBuffDefesa(s) ==
    LET ch == s.ch IN
    IF ch.turnos_buff_defesa > 0
    THEN [ch |-> [ch EXCEPT !.turnos_buff_defesa = ch.turnos_buff_defesa - 1],
          messages |-> IF ch.turnos_buff_defesa - 1 <= 0
                       THEN Append(s.messages, "buff_defesa_ends") ELSE s.messages]
    ELSE s

StatusFuria(s) ==
    LET ch == s.ch IN
    IF ch.turnos_furia > 0
    THEN [ch |-> [ch EXCEPT !.turnos_furia = ch.turnos_furia - 1],
          messages |-> IF ch.turnos_furia - 1 <= 0
                       THEN Append(s.messages, "furia_ends") ELSE s.messages]
    ELSE s

StatusRegeneracao(s) ==
    LET ch == s.ch IN
    IF ch.turnos_regeneracao > 0
    THEN LET heal_amount == Min(RegenPerTurn, ch.hp_max - ch.hp)
             healed == IF heal_amount > 0 THEN [ch EXCEPT !.hp = ch.hp + heal_amount] ELSE ch
             m1 == IF heal_amount > 0 THEN Append(s.messages, "regenerates") ELSE s.messages
         IN  [ch |-> [healed EXCEPT !.turnos_regeneracao = ch.turnos_regeneracao - 1],
              messages |-> IF ch.turnos_regeneracao - 1 <= 0
                           THEN Append(m1, "regeneracao_ends") ELSE m1]
    ELSE s

process_status_effects(ch) ==
    StatusRegeneracao(StatusFuria(StatusBuffDefesa(StatusPoison(
        [ch |-> ch, messages |-> <<>>]))))


-----------------------------------------------------------------------------
(* CombatManager helpers (core/managers/combat_manager.py).                *)
(* A helper returns [chars, messages, events, exc]: the Characters after   *)
(* it ran, the messages it returns, the events it emitted, and the         *)
(* exception it raised ("" when it returned).                              *)

\* the rolls explored: both sides of every threshold the code compares a roll with
Rolls == {1, 10, 11, 17, 18, 19, 20, 50, 51, 60, 61, 90, 91, 100}
DamageRolls == 0..6                  \* random.randint(0, 6)

EventTypeMembers ==
    {"COMBAT_START", "COMBAT_END", "PLAYER_LEVEL_UP", "PLAYER_DEATH", "ITEM_USED",
     "SKILL_USED", "EQUIPMENT_CHANGED", "PHASE_COMPLETED", "SAVE_GAME", "LOAD_GAME",
     "ERROR_OCCURRED"}

\* combat_manager.py uses datetime.now() without importing datetime
DatetimeImported == FALSE

Returned(cs, msgs, evs) == [chars |-> cs, messages |-> msgs, events |-> evs, exc |-> ""]
Raised(cs, evs, e) == [chars |-> cs, messages |-> <<>>, events |-> evs, exc |-> e]

crit_chance(attacker) == base_crit_chance + (attacker.nivel * 2)

\* the basic attack without the minimum of 1
attack_damage_no_minimum(attacker, defender, critRoll, dmgRoll) ==
    LET is_critical == critRoll <= crit_chance(attacker)
        base_damage == ataque_total(attacker) + dmgRoll
    IN  IF is_critical
        THEN IntTrunc(CritMultTimes4 * base_damage - 2 * defesa_total(defender), 4)
        ELSE base_damage - defesa_total(defender)

\* damage of a basic attack before take_damage
attack_damage(attacker, defender, critRoll, dmgRoll) ==
    LET is_critical == critRoll <= crit_chance(attacker)
        base_damage == ataque_total(attacker) + dmgRoll
        total_damage ==
            IF is_critical
            THEN IntTrunc(CritMultTimes4 * base_damage - 2 * defesa_total(defender), 4)
            ELSE base_damage - defesa_total(defender)
    IN  Max(1, total_damage)

_process_attack(cs, a, d, critRoll, dmgRoll) ==
    LET is_critical == critRoll <= crit_chance(cs[a])
        total_damage == attack_damage(cs[a], cs[d], critRoll, dmgRoll)
        msgs == IF is_critical THEN <<"critical_hit", "attack">> ELSE <<"attack">>
    IN  IF total_damage < 0 THEN Raised(cs, <<>>, "ValueError")
        ELSE Returned([cs EXCEPT ![d] = take_damage(cs[d], total_damage)], msgs, <<>>)

\* damage of an ATAQUE skill before take_damage
\* the ATAQUE skill without the minimum of 1
skill_damage_no_minimum(skill, user, target) ==
    (skill.valor_efeito + user.ataque_base) - defesa_total(target)

skill_damage(skill, user, target) ==
    Max(1, (skill.valor_efeito + user.ataque_base) - defesa_total(target))

SkillUsedEvent(u, skill, t) ==
    [type |-> "SKILL_USED", user |-> u, skill |-> skill.nome, target |-> t,
     mp_cost |-> skill.custo_mp]

\* the effect branch of _process_skill_use, after the MP was spent (cs)
SkillEffect(cs, u, t, skill) ==
    LET used == <<"skill_used">>
        ev == <<SkillUsedEvent(u, skill, t)>>
    IN
    IF skill.tipo = "ATAQUE"
    THEN IF skill_damage(skill, cs[u], cs[t]) < 0 THEN Raised(cs, <<>>, "ValueError")
         ELSE Returned([cs EXCEPT ![t] = take_damage(cs[t], skill_damage(skill, cs[u], cs[t]))],
                       Append(used, "skill_damage"), ev)
    ELSE IF skill.tipo = "CURA"
    THEN IF is_dead(cs[u])
         THEN Raised(cs, <<>>, "CharacterStateError")
         ELSE Returned([cs EXCEPT ![u] = heal(cs[u], skill.valor_efeito)],
                       Append(used, IF heal_returned(cs[u], skill.valor_efeito) > 0
                                    THEN "skill_heal" ELSE "hp_already_full"), ev)
    ELSE IF skill.tipo = "BUFF_DEFESA"
    THEN Returned([cs EXCEPT ![u].turnos_buff_defesa = BuffDefesaTurns],
                  Append(used, "defesa_up"), ev)
    ELSE IF "FURIA" \notin TipoHabilidadeMembers
    THEN Raised(cs, <<>>, "AttributeError")
    ELSE IF skill.tipo = "FURIA"
    THEN Returned([cs EXCEPT ![u].turnos_furia = FuriaTurns], Append(used, "furia_on"), ev)
    ELSE IF "REGENERACAO" \notin TipoHabilidadeMembers
    THEN Raised(cs, <<>>, "AttributeError")
    ELSE IF skill.tipo = "REGENERACAO"
    THEN Returned([cs EXCEPT ![u].turnos_regeneracao = RegeneracaoTurns],
                  Append(used, "regeneracao_on"), ev)
    ELSE Raised(cs, <<>>, "InvalidActionError")

_process_skill_use(cs, u, t, skill_name) ==
    LET known == cs[u].habilidades_conhecidas
        idx == FirstNamed(known, skill_name)
    IN  IF idx = 0 THEN Raised(cs, <<>>, "ResourceNotFoundError")
        ELSE LET skill == known[idx] IN
             IF ~can_use_skill(cs[u], skill)
             THEN IF cs[u].mp < skill.custo_mp
                  THEN Raised(cs, <<>>, "InsufficientResourcesError")
                  ELSE Raised(cs, <<>>, "InvalidActionError")
             ELSE SkillEffect([cs EXCEPT ![u] = spend_mp(cs[u], skill.custo_mp)], u, t, skill)

_process_item_use(cs, u, item_name) ==
    LET idx == FirstNamed(cs[u].inventario, item_name) IN
    IF idx = 0 THEN Raised(cs, <<>>, "ResourceNotFoundError")
    ELSE
    LET item == cs[u].inventario[idx]
        user0 == cs[u]
        dead_heal == item.cura_hp > 0 /\ is_dead(user0)
        hp_gain == IF item.cura_hp > 0 THEN heal_returned(user0, item.cura_hp) ELSE 0
        user1 == IF item.cura_hp > 0 THEN heal(user0, item.cura_hp) ELSE user0
        m1 == IF hp_gain > 0 THEN <<"item_heals_hp">> ELSE <<>>
        mp_gain == IF item.cura_mp > 0 THEN restore_mp_returned(user1, item.cura_mp) ELSE 0
        user2 == IF item.cura_mp > 0 THEN restore_mp(user1, item.cura_mp) ELSE user1
        m2 == IF mp_gain > 0 THEN Append(m1, "item_restores_mp") ELSE m1
        cures == item.cura_veneno > 0 /\ is_poisoned(user2)
        user3 == IF cures
                 THEN [user2 EXCEPT !.turnos_veneno = 0, !.dano_por_turno_veneno = 0]
                 ELSE user2
        m3 == IF cures THEN Append(m2, "item_cures_poison") ELSE m2
        effects_applied == hp_gain > 0 \/ mp_gain > 0 \/ cures
        m4 == IF effects_applied THEN m3 ELSE Append(m3, "nothing_happens")
        user4 == remove_item_from_inventory(user3, item_name, 1)
    IN  IF dead_heal THEN Raised(cs, <<>>, "CharacterStateError")
        ELSE Returned([cs EXCEPT ![u] = user4], m4,
                      <<[type |-> "ITEM_USED", user |-> u, item |-> item_name,
                         effects_applied |-> effects_applied]>>)

\* the chance without the clamp
escape_chance_unclamped(player, enemy) ==
    escape_base_chance + (player.nivel - enemy.nivel) * 5

escape_chance(player, enemy) ==
    Max(EscapeMin, Min(EscapeMax, escape_base_chance + (player.nivel - enemy.nivel) * 5))

\* _process_escape: returns the session too, since it sets the result
_process_escape(session, cs, p, e, roll) ==
    IF roll <= escape_chance(cs[p], cs[e])
    THEN [session |-> [session EXCEPT !.result = ESCAPED], messages |-> <<"escaped">>]
    ELSE [session |-> session, messages |-> <<"escape_failed">>]


Range(seq) == {seq[i] : i \in 1..Len(seq)}

\* the choice made at the top of _process_enemy_ai: the set of [action, skill, exc]
\* that the random draws allow.  hp_percentage is compared exactly.
EnemyDecisions(enemy) ==
    LET habs == Range(enemy.habilidades_conhecidas)
        Affordable(tipo) == {h \in habs : h.tipo = tipo /\ enemy.mp >= h.custo_mp}
        Use(hs) == {[action |-> "skill", skill |-> <<h>>, exc |-> ""] : h \in hs}
        Attack == [action |-> "attack", skill |-> <<>>, exc |-> ""]
        healing_skills == Affordable("CURA")
        buff_skills == Affordable("BUFF_DEFESA")
        regeneracao_skills == Affordable("REGENERACAO")
        furia_skills == Affordable("FURIA")
        attack_skills == Affordable("ATAQUE")
    IN
    IF Len(enemy.habilidades_conhecidas) > 0 /\ enemy.mp > 0
    THEN IF "REGENERACAO" \notin TipoHabilidadeMembers \/ "FURIA" \notin TipoHabilidadeMembers
         THEN {[action |-> "attack", skill |-> <<>>, exc |-> "AttributeError"]}
         ELSE IF HpPctBelow(enemy, 40) /\ healing_skills # {}
         THEN Use(healing_skills)
         ELSE IF HpPctBelow(enemy, 60) /\ regeneracao_skills # {}
                 /\ ~(enemy.turnos_regeneracao > 0)
         THEN Use(regeneracao_skills)
         ELSE IF HpPctAbove(enemy, 50) /\ buff_skills # {} /\ ~(enemy.turnos_buff_defesa > 0)
         THEN Use(buff_skills)
         ELSE IF HpPctAbove(enemy, 70) /\ furia_skills # {} /\ ~(enemy.turnos_furia > 0)
         THEN Use(furia_skills)
         ELSE IF attack_skills # {}
         THEN UNION {IF roll <= EnemySkillChance THEN Use(attack_skills) ELSE {Attack}
                     : roll \in Rolls}
         ELSE {Attack}
    ELSE {Attack}

AttackOutcomes(cs, a, d) ==
    {_process_attack(cs, a, d, critRoll, dmgRoll) : critRoll \in Rolls, dmgRoll \in DamageRolls}

\* the tail of _process_enemy_ai: the enemy's venom may poison the player
EnemyPoison(r, e, p) ==
    IF r.exc = "" /\ r.chars[e].dano_por_turno_veneno > 0 /\ ~is_poisoned(r.chars[p])
    THEN {IF roll <= EnemyPoisonChance
          THEN [r EXCEPT !.chars[p].turnos_veneno = PoisonTurnsApplied,
                         !.chars[p].dano_por_turno_veneno = r.chars[e].dano_por_turno_veneno,
                         !.messages = Append(r.messages, "poisoned")]
          ELSE r : roll \in Rolls}
    ELSE {r}

\* every result _process_enemy_ai can produce
_process_enemy_ai(cs, e, p) ==
    LET Execute(d) ==
            IF d.exc # "" THEN {Raised(cs, <<>>, d.exc)}
            ELSE IF d.action = "skill" /\ Len(d.skill) = 1
            THEN LET r == _process_skill_use(cs, e, p, d.skill[1].nome) IN
                 IF r.exc \in {"InsufficientResourcesError", "InvalidActionError"}
                 THEN AttackOutcomes(r.chars, e, p)
                 ELSE {r}
            ELSE AttackOutcomes(cs, e, p)
    IN  UNION {EnemyPoison(r, e, p) : r \in UNION {Execute(d) : d \in EnemyDecisions(cs[e])}}

-----------------------------------------------------------------------------
(* End of combat *)

_validate_combat_state(session, cs) ==
    /\ session.player # None
    /\ session.enemy # None
    /\ cs[session.player].hp >= 0
    /\ cs[session.enemy].hp >= 0
    /\ cs[session.player].hp_max > 0
    /\ cs[session.enemy].hp_max > 0

\* _handle_corrupted_combat: the COMBAT_ERROR emit raises before the event is sent
\* (EventType has no such member, datetime is not imported); the except clause
\* then clears the session
_handle_corrupted_combat(events) ==
    [combat |-> <<>>,
     events |-> IF "COMBAT_ERROR" \in EventTypeMembers /\ DatetimeImported
                THEN Append(events, [type |-> "COMBAT_ERROR"]) ELSE events]

\* the enemy's death tested first
end_result_enemy_first(player, enemy, result) ==
    IF is_dead(enemy) THEN PLAYER_WIN
    ELSE IF is_dead(player) THEN PLAYER_DEAD
    ELSE result

\* the result _check_combat_end leaves: the player's death is tested first
end_result(player, enemy, result) ==
    IF is_dead(player) THEN PLAYER_DEAD
    ELSE IF is_dead(enemy) THEN PLAYER_WIN
    ELSE result

\* _check_combat_end on the session (an Optional) and the Characters
_check_combat_end(combat, cs, events) ==
    IF Len(combat) = 0 THEN [combat |-> combat, events |-> events]
    ELSE LET session == combat[1]
             player == session.player
             enemy == session.enemy
             result == end_result(cs[player], cs[enemy], session.result)
         IN  IF ~_validate_combat_state(session, cs)
             THEN _handle_corrupted_combat(events)
             ELSE IF is_dead(cs[player]) \/ is_dead(cs[enemy])
             THEN [combat |-> <<[session EXCEPT !.result = result]>>,
                   events |-> Append(events,
                        IF result = PLAYER_DEAD
                        THEN [type |-> "PLAYER_DEATH", player_name |-> player,
                              enemy_name |-> enemy, turn_count |-> session.turn_count]
                        ELSE [type |-> "COMBAT_END", winner |-> player,
                              loser |-> enemy, turn_count |-> session.turn_count])]
             ELSE [combat |-> combat, events |-> events]

\* get_combat_state: the snapshot a call returns
get_combat_state(combat, cs) ==
    IF Len(combat) = 0 THEN [active |-> FALSE]
    ELSE [active |-> TRUE, player |-> cs[combat[1].player], enemy |-> cs[combat[1].enemy],
          turn_count |-> combat[1].turn_count, log |-> combat[1].log,
          result |-> combat[1].result]

\* handle_exceptions(reraise=True): a ZorgException passes, anything else is
\* re-raised as a plain ZorgException
handle_exceptions(exc) == IF exc \in ZorgExceptions THEN exc ELSE "ZorgException"


-----------------------------------------------------------------------------
(* The Characters and the catalog entries they carry *)

Habilidade(nome, custo_mp, tipo, valor_efeito, nivel_requerido) ==
    [nome |-> nome, custo_mp |-> custo_mp, tipo |-> tipo,
     valor_efeito |-> valor_efeito, nivel_requerido |-> nivel_requerido]

Item(nome, cura_hp, cura_mp, cura_veneno, quantidade) ==
    [nome |-> nome, cura_hp |-> cura_hp, cura_mp |-> cura_mp,
     cura_veneno |-> cura_veneno, quantidade |-> quantidade, stack_max |-> 99]

\* Personagem as __post_init__ leaves it: hp = hp_max, mp = mp_max, counters 0
Personagem(hp_max, mp_max, ataque_base, defesa_base, nivel) ==
    [hp_max |-> hp_max, mp_max |-> mp_max, ataque_base |-> ataque_base,
     defesa_base |-> defesa_base, hp |-> hp_max, mp |-> mp_max, nivel |-> nivel,
     turnos_veneno |-> 0, dano_por_turno_veneno |-> 0, turnos_buff_defesa |-> 0,
     turnos_furia |-> 0, turnos_regeneracao |-> 0,
     arma_bonus_ataque |-> 0, armadura_bonus_defesa |-> 0, escudo_bonus_defesa |-> 0,
     inventario |-> <<>>, habilidades_conhecidas |-> <<>>]

Golpe == Habilidade("Golpe", 2, "ATAQUE", 2, 1)
Toque == Habilidade("Toque", 1, "CURA", 3, 1)
Postura == Habilidade("Postura", 1, "BUFF_DEFESA", 1, 1)
Maldicao == Habilidade("Maldicao", 1, "DEBUFF", 1, 1)
Meteoro == Habilidade("Meteoro", 5, "ATAQUE", 4, 1)
Lendaria == Habilidade("Lendaria", 1, "ATAQUE", 4, 9)

CharIds == {"hero", "foe"}
PlayerArgs == {None, "hero"}
EnemyArgs == {None, "foe"}

SkillNames == {None, "Golpe", "Toque", "Postura", "Maldicao", "Meteoro", "Lendaria", "Desconhecida"}
ItemNames == {None, "Elixir", "Pedra", "Antidoto"}

\* the player with abilities: one of each kind of result _process_skill_use has
HeroMago ==
    [Personagem(5, 2, 3, 1, 2) EXCEPT
        !.arma_bonus_ataque = 1,
        !.habilidades_conhecidas = <<Golpe, Toque, Postura, Maldicao, Meteoro, Lendaria>>]

\* the player with an inventory: an item with every effect and an item with none
HeroMochila ==
    [Personagem(5, 2, 3, 1, 2) EXCEPT
        !.arma_bonus_ataque = 1,
        !.mp = 1,
        !.inventario = <<Item("Elixir", 3, 1, 1, 1), Item("Pedra", 0, 0, 0, 1)>>]

\* a venomous enemy without abilities
Aranha == [Personagem(3, 1, 2, 2, 1) EXCEPT !.dano_por_turno_veneno = 2]

\* an armoured enemy with abilities, one of them above its level
Xama ==
    [Personagem(2, 2, 3, 9, 3) EXCEPT !.habilidades_conhecidas = <<Toque, Golpe, Lendaria>>]

NoCall == "init"
NoCalc == [kind |-> "none"]

Init ==
    LET \* The Characters reach the manager from construction, from a loaded save or after
        \* earlier play: vitals anywhere in their range, status counters already running.
        InitChars ==
            {[hero |-> HeroMago, foe |-> [Xama EXCEPT !.mp = mp]] : mp \in {0, 2}}
            \cup
            {[hero |-> [HeroMochila EXCEPT !.hp = hp, !.turnos_regeneracao = tr], foe |-> Aranha]
                : hp \in {2, 5}, tr \in {0, 2}}
            \cup
            {[hero |-> [HeroMochila EXCEPT !.hp = 2],
              foe |-> [Aranha EXCEPT !.hp = 2, !.turnos_veneno = 1]]}
    IN
        /\ chars \in InitChars
        /\ current_combat = <<>>
        /\ lastCall = NoCall
        /\ outcome = "ok"
        /\ emitted = <<>>
        /\ started = 0
        /\ fallen = {}
        /\ calc = NoCalc

-----------------------------------------------------------------------------
(* The public calls *)

\* the ids among ids whose hp is 0 in one of the Character maps of stages
AtZero(stages, ids) == {c \in ids : \E i \in 1..Len(stages) : stages[i][c].hp <= 0}

Fail(call, exc) ==
    /\ lastCall' = call
    /\ outcome' = handle_exceptions(exc)

Refuse(call, exc) ==
    /\ Fail(call, exc)
    /\ emitted' = <<>>
    /\ UNCHANGED <<chars, current_combat, fallen>>

\* the session dict reused when one is already there
new_session_reused(player, enemy) ==
    IF Len(current_combat) = 1
    THEN [current_combat[1] EXCEPT !.player = player, !.enemy = enemy, !.result = ONGOING]
    ELSE [player |-> player, enemy |-> enemy, turn_count |-> 0, log |-> <<>>, result |-> ONGOING]

\* the session dict start_combat builds
new_session(player, enemy) ==
    [player |-> player, enemy |-> enemy, turn_count |-> 0, log |-> <<>>, result |-> ONGOING]

\* the test forgets the Escaped result
combat_finished_not_escaped(session) == session.result \in {PLAYER_WIN, PLAYER_DEAD}

\* the test both turn methods make on the session's result
combat_finished(session) == session.result # ONGOING

start_combat(player, enemy) ==
    IF player = None \/ enemy = None
    THEN Refuse("start_combat", "ValueError")
    ELSE IF ~is_alive(chars[player]) \/ ~is_alive(chars[enemy])
    THEN Refuse("start_combat", "CombatError")
    ELSE /\ current_combat' = <<new_session(player, enemy)>>
         /\ emitted' = <<[type |-> "COMBAT_START", player_name |-> player,
                          enemy_name |-> enemy, player_level |-> chars[player].nivel,
                          enemy_hp |-> chars[enemy].hp_max]>>
         /\ lastCall' = "start_combat"
         /\ outcome' = "ok"
         /\ fallen' = {}
         /\ UNCHANGED chars

\* the end of a player turn that forgets to count it
FinishPlayerTurn_uncounted(session, cs, msgs, evs) ==
    LET s1 == [session EXCEPT !.log = session.log \o msgs]
        end == _check_combat_end(<<s1>>, cs, evs)
    IN  /\ Len(s1.log) <= MaxLog
        /\ chars' = cs
        /\ current_combat' = end.combat
        /\ emitted' = end.events
        /\ lastCall' = "process_player_turn"
        /\ outcome' = "ok"
        /\ fallen' = fallen \cup AtZero(<<cs>>, {session.player, session.enemy})

\* the end of a successful process_player_turn: extend the log, count the turn,
\* check the end of combat
FinishPlayerTurn(session, cs, msgs, evs) ==
    LET s1 == [session EXCEPT !.log = session.log \o msgs,
                              !.turn_count = session.turn_count + 1]
        end == _check_combat_end(<<s1>>, cs, evs)
    IN  /\ Len(s1.log) <= MaxLog
        /\ chars' = cs
        /\ current_combat' = end.combat
        /\ emitted' = end.events
        /\ lastCall' = "process_player_turn"
        /\ outcome' = "ok"
        /\ fallen' = fallen \cup AtZero(<<cs>>, {session.player, session.enemy})

\* a helper raised: no log, no turn count, no end check
AbortTurn(call, r) ==
    /\ Fail(call, r.exc)
    /\ chars' = r.chars
    /\ emitted' = r.events
    /\ UNCHANGED <<current_combat, fallen>>

process_player_turn(action, name) ==
    LET call == "process_player_turn" IN
    IF Len(current_combat) = 0 THEN Refuse(call, "CombatError")
    ELSE
    LET session == current_combat[1]
        player == session.player
        enemy == session.enemy
    IN
    IF combat_finished(session) THEN Refuse(call, "CombatError")
    ELSE IF player = None \/ enemy = None THEN Refuse(call, "CombatError")
    ELSE IF ~is_alive(chars[player]) THEN Refuse(call, "CombatError")
    ELSE IF action = "attack"
    THEN \E r \in AttackOutcomes(chars, player, enemy) :
            IF r.exc # "" THEN AbortTurn(call, r)
            ELSE FinishPlayerTurn(session, r.chars, r.messages, r.events)
    ELSE IF action = "skill"
    THEN IF name = None THEN Refuse(call, "InvalidActionError")
         ELSE LET r == _process_skill_use(chars, player, enemy, name) IN
              IF r.exc # "" THEN AbortTurn(call, r)
              ELSE FinishPlayerTurn(session, r.chars, r.messages, r.events)
    ELSE IF action = "item"
    THEN IF name = None THEN Refuse(call, "InvalidActionError")
         ELSE LET r == _process_item_use(chars, player, name) IN
              IF r.exc # "" THEN AbortTurn(call, r)
              ELSE FinishPlayerTurn(session, r.chars, r.messages, r.events)
    ELSE IF action = "escape"
    THEN \E roll \in 1..100 :
            LET r == _process_escape(session, chars, player, enemy, roll) IN
            FinishPlayerTurn(r.session, chars, r.messages, <<>>)
    ELSE Refuse(call, "InvalidActionError")

\* the messages of process_status_effects carry the nome of their Character
Named(who, msgs) == [i \in 1..Len(msgs) |-> who \o ":" \o msgs[i]]

\* the enemy turn that processes the enemy's status effects before the player's
process_enemy_turn_enemy_first ==
    LET call == "process_enemy_turn" IN
    IF Len(current_combat) = 0 THEN Refuse(call, "CombatError")
    ELSE
    LET session == current_combat[1]
        player == session.player
        enemy == session.enemy
    IN
    IF combat_finished(session)
    THEN /\ lastCall' = call
         /\ outcome' = "ok"
         /\ emitted' = <<>>
         /\ UNCHANGED <<chars, current_combat, fallen>>
    ELSE \E r \in _process_enemy_ai(chars, enemy, player) :
            IF r.exc # "" THEN AbortTurn(call, r)
            ELSE LET ps == process_status_effects(r.chars[player])
                     pp == StatusPoison([ch |-> r.chars[player], messages |-> <<>>]).ch
                     cs1 == [r.chars EXCEPT ![player] = ps.ch]
                     es == process_status_effects(cs1[enemy])
                     ep == StatusPoison([ch |-> cs1[enemy], messages |-> <<>>]).ch
                     cs2 == [cs1 EXCEPT ![enemy] = es.ch]
                     s1 == [session EXCEPT
                               !.log = session.log \o r.messages \o Named(enemy, es.messages)
                                          \o Named(player, ps.messages)]
                     end == _check_combat_end(<<s1>>, cs2, r.events)
                 IN  /\ Len(s1.log) <= MaxLog
                     /\ chars' = cs2
                     /\ current_combat' = end.combat
                     /\ emitted' = end.events
                     /\ lastCall' = call
                     /\ outcome' = "ok"
                     /\ fallen' = fallen \cup
                            AtZero(<<r.chars, [r.chars EXCEPT ![player] = pp], cs1,
                                     [cs1 EXCEPT ![enemy] = ep], cs2>>, {player, enemy})

process_enemy_turn ==
    LET call == "process_enemy_turn" IN
    IF Len(current_combat) = 0 THEN Refuse(call, "CombatError")
    ELSE
    LET session == current_combat[1]
        player == session.player
        enemy == session.enemy
    IN
    IF combat_finished(session)
    THEN /\ lastCall' = call
         /\ outcome' = "ok"
         /\ emitted' = <<>>
         /\ UNCHANGED <<chars, current_combat, fallen>>
    ELSE \E r \in _process_enemy_ai(chars, enemy, player) :
            IF r.exc # "" THEN AbortTurn(call, r)
            ELSE LET ps == process_status_effects(r.chars[player])
                     pp == StatusPoison([ch |-> r.chars[player], messages |-> <<>>]).ch
                     cs1 == [r.chars EXCEPT ![player] = ps.ch]
                     es == process_status_effects(cs1[enemy])
                     ep == StatusPoison([ch |-> cs1[enemy], messages |-> <<>>]).ch
                     cs2 == [cs1 EXCEPT ![enemy] = es.ch]
                     s1 == [session EXCEPT
                               !.log = session.log \o r.messages \o Named(player, ps.messages)
                                          \o Named(enemy, es.messages)]
                     end == _check_combat_end(<<s1>>, cs2, r.events)
                 IN  /\ Len(s1.log) <= MaxLog
                     /\ chars' = cs2
                     /\ current_combat' = end.combat
                     /\ emitted' = end.events
                     /\ lastCall' = call
                     /\ outcome' = "ok"
                     /\ fallen' = fallen \cup
                            AtZero(<<r.chars, [r.chars EXCEPT ![player] = pp], cs1,
                                     [cs1 EXCEPT ![enemy] = ep], cs2>>, {player, enemy})

\* is_combat_active on the session (an Optional)
is_combat_active(combat) == Len(combat) = 1 /\ combat[1].result = ONGOING

\* what end_combat returns: the snapshot taken before the session is dropped
end_combat_returned(combat, cs) ==
    IF Len(combat) = 0 THEN [active |-> FALSE] ELSE get_combat_state(combat, cs)

\* end_combat that returns the snapshot and keeps the session
end_combat_keeps_session ==
    /\ lastCall' = "end_combat"
    /\ outcome' = "ok"
    /\ emitted' = <<>>
    /\ UNCHANGED <<chars, current_combat, fallen>>

end_combat ==
    /\ current_combat' = <<>>
    /\ lastCall' = "end_combat"
    /\ outcome' = "ok"
    /\ emitted' = <<>>
    /\ UNCHANGED <<chars, fallen>>

StartCombat ==
    /\ \E player \in PlayerArgs, enemy \in EnemyArgs : start_combat(player, enemy)
    /\ started' = IF outcome' = "ok" THEN started + 1 ELSE started
    /\ started' <= MaxSessions
    /\ UNCHANGED calc
PlayerAttack == process_player_turn("attack", None) /\ UNCHANGED <<started, calc>>
PlayerSkill ==
    /\ \E name \in SkillNames : process_player_turn("skill", name)
    /\ UNCHANGED <<started, calc>>
PlayerItem ==
    /\ \E name \in ItemNames : process_player_turn("item", name)
    /\ UNCHANGED <<started, calc>>
PlayerEscape == process_player_turn("escape", None) /\ UNCHANGED <<started, calc>>
PlayerInvalid == process_player_turn("defend", None) /\ UNCHANGED <<started, calc>>
EnemyTurn == process_enemy_turn /\ UNCHANGED <<started, calc>>
EndCombat == end_combat /\ UNCHANGED <<started, calc>>

Next ==
    \/ PlayerInvalid
    \/ StartCombat
    \/ PlayerAttack
    \/ PlayerSkill
    \/ PlayerItem
    \/ PlayerEscape
    \/ EnemyTurn
    \/ EndCombat

Spec == Init /\ [][Next]_vars


-----------------------------------------------------------------------------
(* Attack-only play: the player does nothing but attack *)

AttackNext ==
    \/ StartCombat
    \/ PlayerAttack

AttackSpec == Init /\ [][AttackNext]_vars

-----------------------------------------------------------------------------
(* The damage formulas on their own: an attacker and a defender drawn from *)
(* ranges of attack, defense, level and hp; one basic attack or one ATAQUE *)
(* skill is applied to them.                                               *)

MaxStat == 4           \* ataque_base and the skill's valor_efeito range over 0..MaxStat
MaxDefesa == 6         \* defesa_base ranges over 0..MaxDefesa
HighNivel == 43        \* a level whose crit_chance is above 100: every attack is critical
CalcHpMax == 3

CalcInit ==
    LET Attackers ==
            {[Personagem(1, 1, atk, 0, nivel) EXCEPT
                 !.arma_bonus_ataque = arma,
                 !.habilidades_conhecidas = <<Habilidade("Golpe", 0, "ATAQUE", valor, 1)>>]
                : atk \in 0..MaxStat, nivel \in {1, HighNivel}, arma \in {0, 2}, valor \in 1..MaxStat}
        Defenders ==
            {[Personagem(CalcHpMax, 1, 0, def, 1) EXCEPT !.hp = hp, !.turnos_buff_defesa = buff]
                : def \in 0..MaxDefesa, hp \in {1, CalcHpMax}, buff \in {0, 1}}
    IN
        /\ chars = [hero |-> HeroMago, foe |-> Xama]
        /\ current_combat = <<>>
        /\ lastCall = NoCall
        /\ outcome = "ok"
        /\ emitted = <<>>
        /\ started = 0
        /\ fallen = {}
        /\ calc \in {[kind |-> "input", cs |-> [att |-> a, def |-> d], before |-> [att |-> a, def |-> d],
                      damage |-> 0, exc |-> ""] : a \in Attackers, d \in Defenders}

CalcAttack ==
    /\ calc.kind = "input"
    /\ \E critRoll \in Rolls, dmgRoll \in DamageRolls :
          LET r == _process_attack(calc.cs, "att", "def", critRoll, dmgRoll) IN
          calc' = [calc EXCEPT !.kind = "attack", !.cs = r.chars, !.exc = r.exc,
                       !.damage = attack_damage(calc.cs.att, calc.cs.def, critRoll, dmgRoll)]
    /\ UNCHANGED <<chars, current_combat, lastCall, outcome, emitted, started, fallen>>

CalcSkill ==
    /\ calc.kind = "input"
    /\ LET r == _process_skill_use(calc.cs, "att", "def", "Golpe") IN
          calc' = [calc EXCEPT !.kind = "skill", !.cs = r.chars, !.exc = r.exc,
                       !.damage = skill_damage(calc.cs.att.habilidades_conhecidas[1],
                                               calc.cs.att, calc.cs.def)]
    /\ UNCHANGED <<chars, current_combat, lastCall, outcome, emitted, started, fallen>>

CalcNext ==
    \/ CalcAttack
    \/ CalcSkill

CalcSpec == CalcInit /\ [][CalcNext]_vars

-----------------------------------------------------------------------------
(* Escape attempts between a player and an enemy of any two levels *)

MaxEscapeNivel == 12   \* both levels range over 1..MaxEscapeNivel

EscapeInit ==
    /\ chars \in {[hero |-> [HeroMochila EXCEPT !.nivel = pn],
                   foe |-> [Aranha EXCEPT !.nivel = en]]
                    : pn \in 1..MaxEscapeNivel, en \in 1..MaxEscapeNivel}
    /\ current_combat = <<new_session("hero", "foe")>>
    /\ lastCall = "start_combat"
    /\ outcome = "ok"
    /\ emitted = <<>>
    /\ started = 1
    /\ fallen = {}
    /\ calc = NoCalc

EscapeNext == PlayerEscape

EscapeSpec == EscapeInit /\ [][EscapeNext]_vars

-----------------------------------------------------------------------------
(* Item use on inventories of every shape: stacks of one or more units, two *)
(* stacks of one name, an item with every effect and an item with none      *)

MaxQty == 2            \* a stack holds 1..MaxQty units (0: the stack is absent)

Stack(nome, cura_hp, cura_mp, cura_veneno, q) ==
    IF q = 0 THEN <<>> ELSE <<Item(nome, cura_hp, cura_mp, cura_veneno, q)>>

ItemInit ==
    LET Inventories ==
            {Stack("Elixir", 3, 1, 1, q1) \o Stack("Pedra", 0, 0, 0, q2) \o Stack("Elixir", 3, 1, 1, q3)
                : q1 \in 0..MaxQty, q2 \in 0..MaxQty, q3 \in 0..MaxQty}
    IN
        /\ chars \in {[hero |-> [HeroMochila EXCEPT !.hp = hp, !.inventario = inv,
                                                    !.turnos_veneno = tv,
                                                    !.dano_por_turno_veneno = IF tv > 0 THEN 1 ELSE 0],
                       foe |-> Aranha]
                        : hp \in {2, 5}, tv \in {0, 2}, inv \in Inventories}
        /\ current_combat = <<new_session("hero", "foe")>>
        /\ lastCall = "start_combat"
        /\ outcome = "ok"
        /\ emitted = <<>>
        /\ started = 1
        /\ fallen = {}
        /\ calc = NoCalc

ItemNext == PlayerItem

ItemSpec == ItemInit /\ [][ItemNext]_vars

\* units of the item called nome in an inventory, over all its stacks
RECURSIVE QtyHeld(_, _)
QtyHeld(inv, nome) ==
    IF Len(inv) = 0 THEN 0
    ELSE (IF Head(inv).nome = nome THEN Head(inv).quantidade ELSE 0) + QtyHeld(Tail(inv), nome)

-----------------------------------------------------------------------------
(* A session whose Characters are written from outside the manager: the     *)
(* fields of Personagem are plain attributes, and the integrity check of     *)
(* _check_combat_end exists for the values such a write can leave.           *)

CorruptInit ==
    /\ chars \in {[hero |-> [HeroMochila EXCEPT !.hp = hp], foe |-> Aranha] : hp \in {2, 5}}
    /\ current_combat = <<>>
    /\ lastCall = NoCall
    /\ outcome = "ok"
    /\ emitted = <<>>
    /\ started = 0
    /\ fallen = {}
    /\ calc = NoCalc

\* a direct write to a vital of a Character of the running session
Tamper ==
    /\ Len(current_combat) = 1
    /\ current_combat[1].result = ONGOING
    /\ _validate_combat_state(current_combat[1], chars)
    /\ \E c \in CharIds :
          \/ chars' = [chars EXCEPT ![c].hp = -1]
          \/ chars' = [chars EXCEPT ![c].hp_max = 0]
    /\ UNCHANGED <<current_combat, lastCall, outcome, emitted, started, fallen, calc>>

CorruptNext ==
    \/ Tamper
    \/ StartCombat
    \/ PlayerAttack
    \/ PlayerEscape
    \/ EnemyTurn

CorruptSpec == CorruptInit /\ [][CorruptNext]_vars

-----------------------------------------------------------------------------
(* The methods of Personagem on their own: a Character drawn from ranges of *)
(* hp_max, hp and status counters; one method is applied to it.             *)

MaxVital == 3          \* hp_max ranges over 1..MaxVital, hp over 0..hp_max
MaxTurns == 2          \* turnos_veneno ranges over 0..MaxTurns

Amounts == (-2)..(MaxVital + 1)

VitalsInit ==
    LET VitalsChars ==
            {ch \in {[Personagem(hm, 1, 0, 0, 1) EXCEPT !.hp = hp, !.turnos_veneno = tv,
                                                        !.dano_por_turno_veneno = dano,
                                                        !.turnos_regeneracao = tr]
                        : hm \in 1..MaxVital, hp \in 0..MaxVital, tv \in 0..MaxTurns,
                          dano \in 0..(MaxVital + 1), tr \in {0, 1}}
                : ch.hp <= ch.hp_max}
    IN
        /\ chars = [hero |-> HeroMago, foe |-> Xama]
        /\ current_combat = <<>>
        /\ lastCall = NoCall
        /\ outcome = "ok"
        /\ emitted = <<>>
        /\ started = 0
        /\ fallen = {}
        /\ calc \in {[kind |-> "input", ch |-> c, before |-> c, amount |-> 0, returned |-> 0,
                      exc |-> "", messages |-> <<>>] : c \in VitalsChars}

TakeDamage ==
    /\ calc.kind = "input"
    /\ \E amount \in Amounts :
          LET r == take_damage_call(calc.ch, amount) IN
          calc' = [calc EXCEPT !.kind = "take_damage", !.ch = r.ch, !.amount = amount,
                               !.returned = r.returned, !.exc = r.exc]
    /\ UNCHANGED <<chars, current_combat, lastCall, outcome, emitted, started, fallen>>

Heal ==
    /\ calc.kind = "input"
    /\ \E amount \in Amounts :
          LET r == heal_call(calc.ch, amount) IN
          calc' = [calc EXCEPT !.kind = "heal", !.ch = r.ch, !.amount = amount,
                               !.returned = r.returned, !.exc = r.exc]
    /\ UNCHANGED <<chars, current_combat, lastCall, outcome, emitted, started, fallen>>

ProcessStatusEffects ==
    /\ calc.kind = "input"
    /\ LET r == process_status_effects(calc.ch) IN
          calc' = [calc EXCEPT !.kind = "status", !.ch = r.ch, !.messages = r.messages]
    /\ UNCHANGED <<chars, current_combat, lastCall, outcome, emitted, started, fallen>>

VitalsNext ==
    \/ TakeDamage
    \/ Heal
    \/ ProcessStatusEffects

VitalsSpec == VitalsInit /\ [][VitalsNext]_vars

-----------------------------------------------------------------------------
(* A session whose Characters enter it with status counters already running *)

StatusInit ==
    /\ chars \in {[hero |-> [HeroMochila EXCEPT !.turnos_buff_defesa = h[1], !.turnos_furia = h[2],
                                                !.turnos_veneno = h[3],
                                                !.dano_por_turno_veneno = IF h[3] > 0 THEN 1 ELSE 0],
                   foe |-> [Aranha EXCEPT !.dano_por_turno_veneno = f[1],
                                          !.turnos_buff_defesa = f[2],
                                          !.turnos_regeneracao = f[3]]]
                    : h \in {<<0, 0, 0>>, <<1, 2, 0>>, <<1, 0, 2>>, <<0, 1, 1>>},
                      f \in {<<2, 0, 0>>, <<0, 1, 1>>, <<0, 1, 0>>, <<2, 0, 2>>}}
    /\ current_combat = <<new_session("hero", "foe")>>
    /\ lastCall = "start_combat"
    /\ outcome = "ok"
    /\ emitted = <<>>
    /\ started = 1
    /\ fallen = {}
    /\ calc = NoCalc

StatusNext ==
    \/ PlayerAttack
    \/ PlayerItem
    \/ PlayerEscape
    \/ EnemyTurn

StatusSpec == StatusInit /\ [][StatusNext]_vars

\* the status messages that name the Character who
StatusMessagesOf(who) ==
    {who \o ":" \o m : m \in {"poison_damage", "poison_cured", "buff_defesa_ends",
                                "furia_ends", "regenerates", "regeneracao_ends"}}

\* a status counter after one processing
Tick(n) == IF n > 0 THEN n - 1 ELSE 0

-----------------------------------------------------------------------------
(* Elemental effectiveness chart (core/elemental_system.py).  Multipliers are
   kept in tenths: 1.0 is 10, 2.0 is 20. *)

Element ==
    {"NEUTRO", "FOGO", "GELO", "SOMBRA", "LUZ", "NATUREZA", "ARCANO", "FISICO", "DIVINO"}

\* the assignments of _initialize_chart after the neutral fill, in source order
ChartAssignments ==
    << <<"FOGO", "GELO", 15>>, <<"FOGO", "NATUREZA", 15>>, <<"FOGO", "FOGO", 5>>,
       <<"FOGO", "AGUA", 5>>,
       <<"GELO", "FOGO", 5>>, <<"GELO", "NATUREZA", 15>>, <<"GELO", "GELO", 5>>,
       <<"SOMBRA", "LUZ", 15>>, <<"SOMBRA", "DIVINO", 15>>, <<"SOMBRA", "SOMBRA", 5>>,
       <<"LUZ", "SOMBRA", 15>>, <<"LUZ", "ARCANO", 12>>, <<"LUZ", "LUZ", 5>>,
       <<"NATUREZA", "FISICO", 8>>, <<"NATUREZA", "ARCANO", 13>>,
       <<"NATUREZA", "FOGO", 5>>, <<"NATUREZA", "GELO", 5>>,
       <<"ARCANO", "FISICO", 13>>, <<"ARCANO", "NATUREZA", 7>>, <<"ARCANO", "ARCANO", 5>>,
       <<"FISICO", "ARCANO", 7>>, <<"FISICO", "NATUREZA", 12>>, <<"FISICO", "SOMBRA", 8>>,
       <<"DIVINO", "SOMBRA", 20>>, <<"DIVINO", "ARCANO", 13>>, <<"DIVINO", "DIVINO", 5>> >>

\* the chart after the first n assignments; evaluating a name that is not a
\* member of Element raises AttributeError and the method is left
RECURSIVE ChartAfter(_)
ChartAfter(n) ==
    IF n = 0 THEN [chart |-> [p \in Element \X Element |-> 10], exc |-> None]
    ELSE LET prev == ChartAfter(n - 1)
             a == ChartAssignments[n]
         IN  IF prev.exc # None THEN prev
             ELSE IF a[1] \notin Element \/ a[2] \notin Element
                  THEN [chart |-> prev.chart, exc |-> "AttributeError"]
                  ELSE [chart |-> [prev.chart EXCEPT ![<<a[1], a[2]>>] = a[3]], exc |-> None]

_initialize_chart == ChartAfter(Len(ChartAssignments))

\* ElementalChart().get_effectiveness(attacker, defender): the constructor
\* runs _initialize_chart; there is a chart to read only when it returned
get_effectiveness(attacker_element, defender_element) ==
    LET built == _initialize_chart IN
    IF built.exc # None THEN [value |-> 0, exc |-> built.exc]
    ELSE [value |-> built.chart[<<attacker_element, defender_element>>], exc |-> None]

ElementInit ==
    /\ chars = [hero |-> HeroMago, foe |-> Xama]
    /\ current_combat = <<>>
    /\ lastCall = NoCall
    /\ outcome = "ok"
    /\ emitted = <<>>
    /\ started = 0
    /\ fallen = {}
    /\ calc \in {[kind |-> "input", attacker |-> a, defender |-> b, value |-> 0, exc |-> ""]
                   : a \in Element, b \in Element}

GetEffectiveness ==
    /\ calc.kind = "input"
    /\ LET r == get_effectiveness(calc.attacker, calc.defender) IN
          calc' = [calc EXCEPT !.kind = "get_effectiveness", !.value = r.value, !.exc = r.exc]
    /\ UNCHANGED <<chars, current_combat, lastCall, outcome, emitted, started, fallen>>

ElementNext == GetEffectiveness

ElementSpec == ElementInit /\ [][ElementNext]_vars

-----------------------------------------------------------------------------
(* LRUCache (core/managers/cache_manager.py).  The OrderedDict is the sequence
   of its entries, first inserted first; time.time() is the number of the
   call. *)

MaxCacheSize == 2
MaxCacheOps == 5

CacheKeys == {"a", "b", "c"}

CacheEntry(key, value, ttl, now) ==
    [key |-> key, value |-> value, ttl |-> ttl, expired |-> FALSE,
     created_at |-> now, last_accessed |-> now]

\* position of key in the OrderedDict, 0 when absent
CachePos(cache, key) ==
    IF \E i \in 1..Len(cache) : cache[i].key = key
    THEN CHOOSE i \in 1..Len(cache) : cache[i].key = key
    ELSE 0

is_expired(entry) == entry.ttl # None /\ entry.expired

LRUCache_get_no_touch(cache, key, now) ==
    LET i == CachePos(cache, key) IN
    IF i = 0 THEN [cache |-> cache, returned |-> None, evicted |-> <<>>]
    ELSE IF is_expired(cache[i])
         THEN [cache |-> RemoveAt(cache, i), returned |-> None, evicted |-> <<>>]
         ELSE [cache |-> [cache EXCEPT ![i].last_accessed = now],
               returned |-> cache[i].value, evicted |-> <<>>]

LRUCache_get(cache, key, now) ==
    LET i == CachePos(cache, key) IN
    IF i = 0 THEN [cache |-> cache, returned |-> None, evicted |-> <<>>]
    ELSE IF is_expired(cache[i])
         THEN [cache |-> RemoveAt(cache, i), returned |-> None, evicted |-> <<>>]
         ELSE [cache |-> Append(RemoveAt(cache, i),
                                [cache[i] EXCEPT !.last_accessed = now]),
               returned |-> cache[i].value, evicted |-> <<>>]

LRUCache_set(cache, max_size, key, value, ttl, now) ==
    LET i == CachePos(cache, key)
        entry == CacheEntry(key, value, ttl, now)
    IN  IF i # 0
        THEN [cache |-> Append(RemoveAt(cache, i), entry), returned |-> None,
              evicted |-> <<>>]
        ELSE LET added == Append(cache, entry) IN
             IF Len(added) > max_size
             THEN [cache |-> Tail(added), returned |-> None, evicted |-> <<Head(added)>>]
             ELSE [cache |-> added, returned |-> None, evicted |-> <<>>]

LRUCache_delete(cache, key) ==
    LET i == CachePos(cache, key) IN
    IF i # 0 THEN [cache |-> RemoveAt(cache, i), returned |-> TRUE, evicted |-> <<>>]
    ELSE [cache |-> cache, returned |-> FALSE, evicted |-> <<>>]

CacheInit ==
    /\ chars = [hero |-> HeroMago, foe |-> Xama]
    /\ current_combat = <<>>
    /\ lastCall = NoCall
    /\ outcome = "ok"
    /\ emitted = <<>>
    /\ started = 0
    /\ fallen = {}
    /\ calc \in {[kind |-> "lru", max_size |-> n, cache |-> <<>>, clock |-> 0,
                  op |-> "init", key |-> None, before |-> <<>>, returned |-> None,
                  evicted |-> <<>>] : n \in 1..MaxCacheSize}

CacheCall(op, key, r) ==
    calc' = [calc EXCEPT !.cache = r.cache, !.clock = @ + 1, !.op = op, !.key = key,
                         !.before = calc.cache, !.returned = r.returned,
                         !.evicted = r.evicted]

CacheGet ==
    /\ calc.clock < MaxCacheOps
    /\ \E key \in CacheKeys :
          CacheCall("get", key, LRUCache_get(calc.cache, key, calc.clock + 1))
    /\ UNCHANGED <<chars, current_combat, lastCall, outcome, emitted, started, fallen>>

CacheSet ==
    /\ calc.clock < MaxCacheOps
    /\ \E key \in CacheKeys, value \in {1, 2}, ttl \in {None, "ttl"} :
          CacheCall("set", key,
                    LRUCache_set(calc.cache, calc.max_size, key, value, ttl, calc.clock + 1))
    /\ UNCHANGED <<chars, current_combat, lastCall, outcome, emitted, started, fallen>>

CacheDelete ==
    /\ calc.clock < MaxCacheOps
    /\ \E key \in CacheKeys :
          CacheCall("delete", key, LRUCache_delete(calc.cache, key))
    /\ UNCHANGED <<chars, current_combat, lastCall, outcome, emitted, started, fallen>>

\* time passes beyond the ttl of an entry that has one
CacheExpire ==
    /\ \E i \in 1..Len(calc.cache) :
          /\ calc.cache[i].ttl # None
          /\ ~calc.cache[i].expired
          /\ calc' = [calc EXCEPT !.cache[i].expired = TRUE, !.op = "time", !.key = None,
                                  !.before = calc.cache, !.returned = None,
                                  !.evicted = <<>>]
    /\ UNCHANGED <<chars, current_combat, lastCall, outcome, emitted, started, fallen>>

CacheNext ==
    \/ CacheGet
    \/ CacheSet
    \/ CacheDelete
    \/ CacheExpire

CacheSpec == CacheInit /\ [][CacheNext]_vars

-----------------------------------------------------------------------------
(* EventManager (core/managers/event_manager.py).  A handler is a callable:
   what it does when invoked is its behaviour, which includes calling back
   into the manager. *)

EventTypes == {"COMBAT_START", "COMBAT_END"}
Handlers == {"h1", "h2", "h3"}

\* list.remove(handler): drops the first occurrence
RECURSIVE ListRemove(_, _)
ListRemove(list, x) ==
    IF list = <<>> THEN <<>>
    ELSE IF Head(list) = x THEN Tail(list)
    ELSE <<Head(list)>> \o ListRemove(Tail(list), x)

subscribe(handlers, event_type, handler) ==
    IF handler \in Range(handlers[event_type]) THEN handlers
    ELSE [handlers EXCEPT ![event_type] = Append(@, handler)]

unsubscribe(handlers, event_type, handler) ==
    [handlers EXCEPT ![event_type] = ListRemove(@, handler)]

\* the for loop of emit over the live list self._handlers[event_type]: the
\* iterator holds an index, and the list is the one subscribe and unsubscribe
\* write
RECURSIVE emit_loop(_, _, _, _, _)
emit_loop(handlers, event_type, behaviour, i, invoked) ==
    IF i > Len(handlers[event_type]) THEN [handlers |-> handlers, invoked |-> invoked]
    ELSE LET handler == handlers[event_type][i]
             after == IF behaviour[handler] = "unsubscribe_self"
                      THEN unsubscribe(handlers, event_type, handler)
                      ELSE handlers
         IN  emit_loop(after, event_type, behaviour, i + 1, Append(invoked, handler))

emit(handlers, event_type, behaviour) == emit_loop(handlers, event_type, behaviour, 1, <<>>)

NoHandlers == [t \in EventTypes |-> <<>>]

EventInit ==
    /\ chars = [hero |-> HeroMago, foe |-> Xama]
    /\ current_combat = <<>>
    /\ lastCall = NoCall
    /\ outcome = "ok"
    /\ emitted = <<>>
    /\ started = 0
    /\ fallen = {}
    /\ calc = [kind |-> "events", handlers |-> NoHandlers, op |-> "init", type |-> None,
               before |-> NoHandlers, behaviour |-> [h \in Handlers |-> "return"],
               invoked |-> <<>>, exc |-> None]

Subscribe ==
    /\ \E t \in EventTypes, h \in Handlers :
          calc' = [calc EXCEPT !.handlers = subscribe(calc.handlers, t, h),
                               !.op = "subscribe", !.type = t, !.before = calc.handlers,
                               !.behaviour = [x \in Handlers |-> "return"],
                               !.invoked = <<>>, !.exc = None]
    /\ UNCHANGED <<chars, current_combat, lastCall, outcome, emitted, started, fallen>>

Unsubscribe ==
    /\ \E t \in EventTypes, h \in Handlers :
          calc' = [calc EXCEPT !.handlers = unsubscribe(calc.handlers, t, h),
                               !.op = "unsubscribe", !.type = t, !.before = calc.handlers,
                               !.behaviour = [x \in Handlers |-> "return"],
                               !.invoked = <<>>, !.exc = None]
    /\ UNCHANGED <<chars, current_combat, lastCall, outcome, emitted, started, fallen>>

Emit ==
    /\ \E t \in EventTypes, behaviour \in [Handlers -> {"return", "raise", "unsubscribe_self"}] :
          LET r == emit(calc.handlers, t, behaviour) IN
          calc' = [calc EXCEPT !.handlers = r.handlers, !.op = "emit", !.type = t,
                               !.before = calc.handlers, !.behaviour = behaviour,
                               !.invoked = r.invoked, !.exc = None]
    /\ UNCHANGED <<chars, current_combat, lastCall, outcome, emitted, started, fallen>>

EventNext ==
    \/ Subscribe
    \/ Unsubscribe
    \/ Emit

EventSpec == EventInit /\ [][EventNext]_vars

-----------------------------------------------------------------------------
(* A session whose player knows the buff abilities: the defense buff and the
   regeneration ability as data/abilities.py declares it *)

\* "Regeneracao Vital" is declared with tipo=TipoHabilidade.REGENERACAO; the
\* record carries the type the declaration names
RegeneracaoVital == Habilidade("Regeneracao Vital", 1, "REGENERACAO", 1, 1)

BuffInit ==
    LET HeroBuff(mp, armadura, buff, regen) ==
            [Personagem(5, 3, 3, 1, 2) EXCEPT
                !.mp = mp,
                !.armadura_bonus_defesa = armadura,
                !.turnos_buff_defesa = buff,
                !.turnos_regeneracao = regen,
                !.habilidades_conhecidas = <<Postura, RegeneracaoVital>>]
    IN
        /\ chars \in {[hero |-> HeroBuff(mp, armadura, buff, regen), foe |-> Aranha]
                        : mp \in {0, 3}, armadura \in {0, 2}, buff \in {0, 1}, regen \in {0, 2}}
        /\ current_combat = <<new_session("hero", "foe")>>
        /\ lastCall = "start_combat"
        /\ outcome = "ok"
        /\ emitted = <<>>
        /\ started = 1
        /\ fallen = {}
        /\ calc = NoCalc

\* process_player_turn(CombatAction.SKILL, name), remembering the ability asked
\* for and whether the player could use it
BuffSkill ==
    /\ \E name \in {"Postura", "Regeneracao Vital"} :
          /\ process_player_turn("skill", name)
          /\ calc' = [kind |-> "skill", skill_name |-> name,
                      usable |-> /\ Len(current_combat) = 1
                                 /\ ~combat_finished(current_combat[1])
                                 /\ is_alive(chars["hero"])
                                 /\ \E i \in 1..Len(chars["hero"].habilidades_conhecidas) :
                                       LET s == chars["hero"].habilidades_conhecidas[i] IN
                                       s.nome = name /\ can_use_skill(chars["hero"], s)]
    /\ UNCHANGED started

BuffEnemyTurn == process_enemy_turn /\ calc' = NoCalc /\ UNCHANGED started

BuffNext ==
    \/ BuffSkill
    \/ BuffEnemyTurn

BuffSpec == BuffInit /\ [][BuffNext]_vars

-----------------------------------------------------------------------------
(* _validate_combat_state on sessions whose Characters carry any numbers *)

\* hp, hp_max and mp of a Character as the check may meet them
ValidateVitals == {<<hp, hp_max, mp>> : hp \in {-1, 0, 2, 3}, hp_max \in {0, 2}, mp \in {-1, 1}}

ValidateChar(v) == [Personagem(2, 1, 1, 1, 1) EXCEPT !.hp = v[1], !.hp_max = v[2], !.mp = v[3]]

ValidateInit ==
    /\ chars = [hero |-> HeroMago, foe |-> Xama]
    /\ current_combat = <<>>
    /\ lastCall = NoCall
    /\ outcome = "ok"
    /\ emitted = <<>>
    /\ started = 0
    /\ fallen = {}
    /\ calc \in {[kind |-> "input",
                  session |-> [new_session("hero", "foe") EXCEPT !.player = p, !.enemy = e],
                  cs |-> [hero |-> ValidateChar(pv), foe |-> ValidateChar(ev)],
                  valid |-> FALSE]
                   : p \in PlayerArgs, e \in EnemyArgs,
                     pv \in ValidateVitals, ev \in {v \in ValidateVitals : v[3] = 1}}

ValidateCombatState ==
    /\ calc.kind = "input"
    /\ calc' = [calc EXCEPT !.kind = "validated",
                            !.valid = _validate_combat_state(calc.session, calc.cs)]
    /\ UNCHANGED <<chars, current_combat, lastCall, outcome, emitted, started, fallen>>

ValidateNext == ValidateCombatState

ValidateSpec == ValidateInit /\ [][ValidateNext]_vars

-----------------------------------------------------------------------------
(* EnemyAI (core/enemy_ai.py).  get_next_action is handed two objects and
   reads them by attribute name: shape says which names an object has,
   "Personagem" for the combat model's hp / mp, "atual" for an object with
   hp_atual / mp_atual. *)

MaxAITurns == 3

AICharacter(shape, hp, hp_max, mp, mp_max, habilidades) ==
    [shape |-> shape, hp |-> hp, hp_max |-> hp_max, mp |-> mp, mp_max |-> mp_max,
     habilidades_conhecidas |-> habilidades]

\* hasattr(character, "hp_atual") / hasattr(character, "mp_atual")
HasAtual(character) == character.shape = "atual"

\* a percentage as the pair <<numerator, denominator>>
_get_hp_percentage(character) ==
    IF HasAtual(character) /\ character.hp_max > 0
    THEN <<character.hp, character.hp_max>> ELSE <<1, 1>>

_get_mp_percentage(character) ==
    IF HasAtual(character) /\ character.mp_max > 0
    THEN <<character.mp, character.mp_max>> ELSE <<1, 1>>

\* pct < n/100, pct <= n/100, pct > n/100
PctLt(pct, n) == pct[1] * 100 < n * pct[2]
PctLe(pct, n) == pct[1] * 100 <= n * pct[2]
PctGt(pct, n) == pct[1] * 100 > n * pct[2]

AIPattern(condition, actions) == [condition |-> condition, actions |-> actions]
AISpecialCondition(trigger, action) == [trigger |-> trigger, action |-> action, used |-> FALSE]

should_trigger(condition, turn_count, enemy, player) ==
    IF condition.trigger = "first_turn" /\ turn_count = 1 THEN TRUE
    ELSE IF condition.trigger = "low_hp" /\ PctLt(_get_hp_percentage(enemy), 25) THEN TRUE
    ELSE IF condition.trigger = "player_low_hp" /\ PctLt(_get_hp_percentage(player), 30)
    THEN TRUE
    ELSE FALSE

\* a variant that takes the last satisfied trigger instead of the first
_check_special_conditions_last(special_conditions, turn_count, enemy, player) ==
    LET ready == {i \in 1..Len(special_conditions) :
                    /\ ~special_conditions[i].used
                    /\ should_trigger(special_conditions[i], turn_count, enemy, player)}
    IN  IF ready = {} THEN [fired |-> 0, special_conditions |-> special_conditions]
        ELSE LET i == CHOOSE x \in ready : \A y \in ready : x >= y IN
             [fired |-> i,
              special_conditions |-> [special_conditions EXCEPT ![i].used = TRUE]]

\* the first condition in declaration order that is not used and triggers is
\* marked used and returned; 0 stands for None
_check_special_conditions(special_conditions, turn_count, enemy, player) ==
    LET ready == {i \in 1..Len(special_conditions) :
                    /\ ~special_conditions[i].used
                    /\ should_trigger(special_conditions[i], turn_count, enemy, player)}
    IN  IF ready = {} THEN [fired |-> 0, special_conditions |-> special_conditions]
        ELSE LET i == CHOOSE x \in ready : \A y \in ready : x <= y IN
             [fired |-> i,
              special_conditions |-> [special_conditions EXCEPT ![i].used = TRUE]]

_evaluate_condition(condition, turn_count, enemy, player) ==
    LET enemy_hp_pct == _get_hp_percentage(enemy)
        enemy_mp_pct == _get_mp_percentage(enemy)
        player_hp_pct == _get_hp_percentage(player)
    IN  CASE condition = "hp_above_75" -> PctGt(enemy_hp_pct, 75)
          [] condition = "hp_above_50" -> PctGt(enemy_hp_pct, 50)
          [] condition = "hp_above_25" -> PctGt(enemy_hp_pct, 25)
          [] condition = "hp_below_75" -> PctLe(enemy_hp_pct, 75)
          [] condition = "hp_below_50" -> PctLe(enemy_hp_pct, 50)
          [] condition = "hp_below_25" -> PctLe(enemy_hp_pct, 25)
          [] condition = "mp_above_50" -> PctGt(enemy_mp_pct, 50)
          [] condition = "mp_below_50" -> PctLe(enemy_mp_pct, 50)
          [] condition = "first_turn" -> turn_count = 1
          [] condition = "player_hp_low" -> PctLt(player_hp_pct, 30)
          [] condition = "player_hp_high" -> PctGt(player_hp_pct, 70)
          [] condition = "always" -> TRUE
          [] OTHER -> FALSE

_get_applicable_patterns(attack_patterns, turn_count, enemy, player) ==
    {i \in 1..Len(attack_patterns) :
        _evaluate_condition(attack_patterns[i].condition, turn_count, enemy, player)}

\* the action names _apply_personality_to_choice may return (actions not empty)
_apply_personality_to_choice(personality, actions, action_history, enemy) ==
    LET all == Range(actions)
        recent == Range(action_history)
        available == {a \in all : a \notin recent}
        aggressive_actions == {a \in all : a \in {"basic_attack", "charge_attack"}}
    IN  IF personality = "CUNNING" /\ action_history # <<>> /\ available # {}
        THEN available
        ELSE IF personality = "BERSERKER" /\ PctLt(_get_hp_percentage(enemy), 50)
                /\ aggressive_actions # {}
        THEN aggressive_actions
        ELSE all

\* the "ability" values _choose_ability may return, or the exception it raises
_choose_ability(enemy) ==
    IF enemy.habilidades_conhecidas # <<>>
    THEN IF ~HasAtual(enemy) THEN [exc |-> "AttributeError", abilities |-> {}]
         ELSE LET available_abilities ==
                      {s.nome : s \in {x \in Range(enemy.habilidades_conhecidas) :
                                          enemy.mp >= x.custo_mp}}
              IN  [exc |-> None,
                   abilities |-> IF available_abilities # {} THEN available_abilities
                                 ELSE {None}]
    ELSE [exc |-> None, abilities |-> {None}]

\* the "type" the action map gives each name
ActionType(action_name) ==
    CASE action_name = "basic_attack" -> "attack"
      [] action_name = "use_ability" -> "ability"
      [] action_name = "defend" -> "defend"
      [] action_name = "heal" -> "heal"
      [] action_name = "taunt" -> "taunt"
      [] action_name = "intimidate" -> "intimidate"
      [] action_name = "flee_attempt" -> "flee"
      [] action_name = "charge_attack" -> "charge_attack"
      [] action_name = "special_move" -> "special"
      [] OTHER -> "attack"

\* no action returned; name is the action name a dict was made from, pattern
\* the position of the pattern it came from, trigger that of the trigger
NoAction ==
    [type |-> None, ability |-> None, via |-> None, name |-> None, pattern |-> 0,
     trigger |-> 0]

\* the dicts _create_action_dict may return: the whole map is built first,
\* the entry of use_ability with the value of _choose_ability(enemy)
_create_action_dict(action_name, enemy) ==
    LET chosen == _choose_ability(enemy) IN
    IF chosen.exc # None THEN {[exc |-> chosen.exc, action |-> NoAction]}
    ELSE {[exc |-> None,
           action |-> [type |-> ActionType(action_name),
                       ability |-> IF action_name = "use_ability" THEN ab ELSE None,
                       via |-> "pattern", name |-> action_name, pattern |-> 0,
                       trigger |-> 0]]
            : ab \in chosen.abilities}

\* action_history[-2:] is all the class reads of the history; the AI keeps the
\* "type" of each dict there, and taken keeps the action names they were made
\* from
LastTwo(list) == IF Len(list) <= 2 THEN list ELSE SubSeq(list, Len(list) - 1, Len(list))

\* the states of the AI after get_next_action(enemy, player)
get_next_action(ai, enemy, player) ==
    LET turn_count == ai.turn_count + 1
        special == _check_special_conditions(ai.special_conditions, turn_count, enemy, player)
        called == [ai EXCEPT !.turn_count = turn_count, !.enemy = enemy, !.player = player,
                             !.special_conditions = special.special_conditions,
                             !.returned = NoAction, !.exc = None]
        applicable == _get_applicable_patterns(ai.attack_patterns, turn_count, enemy, player)
        Done(action, p, name) ==
            [called EXCEPT !.returned = [action EXCEPT !.pattern = p],
                           !.action_history = LastTwo(Append(@, action.type)),
                           !.taken = LastTwo(Append(@, name))]
    IN  IF special.fired # 0
        THEN {[called EXCEPT !.returned = [type |-> ai.special_conditions[special.fired].action,
                                           ability |-> None, via |-> "special",
                                           name |-> None, pattern |-> 0,
                                           trigger |-> special.fired],
                             !.fired[special.fired] = @ + 1]}
        ELSE IF applicable = {}
        THEN {[called EXCEPT !.returned = [NoAction EXCEPT !.type = "basic_attack",
                                                            !.via = "fallback"]]}
        ELSE UNION {
               LET pattern == ai.attack_patterns[p] IN
               IF pattern.actions = <<>>
               THEN {Done([NoAction EXCEPT !.type = "basic_attack", !.via = "empty_pattern"],
                          p, "basic_attack")}
               ELSE UNION {
                      {IF d.exc # None THEN [called EXCEPT !.exc = d.exc]
                       ELSE Done(d.action, p, action_name)
                         : d \in _create_action_dict(action_name, enemy)}
                      : action_name \in _apply_personality_to_choice(
                                           ai.personality, pattern.actions,
                                           ai.action_history, enemy)}
               : p \in applicable}

AIBehavior(personality, attack_patterns, special_conditions) ==
    [personality |-> personality, attack_patterns |-> attack_patterns,
     special_conditions |-> special_conditions]

\* behaviours as the JSON gives them: one with every trigger, one with the
\* pattern conditions (and a condition the class does not know), a cunning one,
\* one that uses abilities
AIBehaviors ==
    {AIBehavior("AGGRESSIVE", <<AIPattern("always", <<"basic_attack">>)>>,
                <<AISpecialCondition("first_turn", "taunt"),
                  AISpecialCondition("low_hp", "heal"),
                  AISpecialCondition("player_low_hp", "special_move"),
                  AISpecialCondition("low_hp", "flee_attempt")>>),
     AIBehavior("TACTICAL",
                <<AIPattern("hp_below_25", <<"defend">>),
                  AIPattern("hp_above_75", <<"charge_attack">>),
                  AIPattern("player_hp_low", <<"special_move">>),
                  AIPattern("mp_below_50", <<"taunt">>),
                  AIPattern("enraged", <<"intimidate">>)>>,
                <<AISpecialCondition("low_hp", "heal")>>),
     AIBehavior("CUNNING", <<AIPattern("always", <<"basic_attack", "defend", "taunt">>)>>,
                <<>>),
     AIBehavior("BERSERKER",
                <<AIPattern("always", <<"use_ability", "defend", "charge_attack">>),
                  AIPattern("hp_below_50", <<>>)>>,
                <<>>)}

AIInit ==
    LET \* EnemyAI.__init__
        NewEnemyAI(b) ==
            [kind |-> "ai", personality |-> b.personality, attack_patterns |-> b.attack_patterns,
             special_conditions |-> b.special_conditions, turn_count |-> 0,
             action_history |-> <<>>, taken |-> <<>>,
             fired |-> [i \in 1..Len(b.special_conditions) |-> 0],
             enemy |-> AICharacter("Personagem", 10, 10, 2, 2, <<>>),
             player |-> AICharacter("Personagem", 10, 10, 2, 2, <<>>),
             returned |-> NoAction, exc |-> None]
    IN
        /\ chars = [hero |-> HeroMago, foe |-> Xama]
        /\ current_combat = <<>>
        /\ lastCall = NoCall
        /\ outcome = "ok"
        /\ emitted = <<>>
        /\ started = 0
        /\ fallen = {}
        /\ calc \in {NewEnemyAI(b) : b \in AIBehaviors}

GetNextAction ==
    LET \* the objects get_next_action is called with
        AIEnemies ==
            {AICharacter(shape, hp, 10, v[1], 2, v[2])
               : shape \in {"Personagem", "atual"}, hp \in {2, 5, 10},
                 v \in {<<2, <<>> >>, <<1, <<Toque, Golpe>> >>, <<0, <<Toque, Golpe>> >>}}
        AIPlayers ==
            {AICharacter(shape, hp, 10, 2, 2, <<>>) : shape \in {"Personagem", "atual"}, hp \in {2, 10}}
    IN
        /\ calc.turn_count < MaxAITurns
        /\ \E enemy \in AIEnemies, player \in AIPlayers :
              calc' \in get_next_action(calc, enemy, player)
        /\ UNCHANGED <<chars, current_combat, lastCall, outcome, emitted, started, fallen>>

AINext == GetNextAction

AISpec == AIInit /\ [][AINext]_vars

-----------------------------------------------------------------------------
(* InventoryManager (core/managers/inventory_manager.py) on the inventory of
   one player *)

max_inventory_size == 50
MaxInvOps == 3

\* DB_ITENS (data/items.py): templates with quantidade 1 and stack_max 99
DB_ITENS ==
    [n \in {"Pocao de Cura", "Antidoto", "Pocao de Mana"} |->
        CASE n = "Pocao de Cura" -> Item("Pocao de Cura", 30, 0, 0, 1)
          [] n = "Antidoto" -> Item("Antidoto", 0, 0, 1, 1)
          [] n = "Pocao de Mana" -> Item("Pocao de Mana", 0, 25, 0, 1)]

InvItemNames == {"Pocao de Cura", "Antidoto", "Desconhecido"}
InvQuantities == {0, 1, 2, 100}

\* _try_stack_item: the first stack of the name with room takes the quantity
_try_stack_item(inventario, nome, quantity) ==
    LET fits == {i \in 1..Len(inventario) :
                    /\ inventario[i].nome = nome
                    /\ inventario[i].quantidade + quantity <= inventario[i].stack_max}
    IN  IF fits = {} THEN [ok |-> FALSE, inventario |-> inventario]
        ELSE LET i == CHOOSE x \in fits : \A y \in fits : x <= y IN
             [ok |-> TRUE,
              inventario |-> [inventario EXCEPT ![i].quantidade = @ + quantity]]

InvResult(inventario, returned, exc, action) ==
    [inventario |-> inventario, returned |-> returned, exc |-> exc, action |-> action]

add_item(inventario, item_name, quantity) ==
    IF quantity <= 0 THEN InvResult(inventario, FALSE, "ValueError", None)
    ELSE IF item_name \notin DOMAIN DB_ITENS
    THEN InvResult(inventario, FALSE, "ResourceNotFoundError", None)
    ELSE
    LET full == Len(inventario) >= max_inventory_size
        checked == IF full THEN _try_stack_item(inventario, item_name, quantity)
                   ELSE [ok |-> TRUE, inventario |-> inventario]
        stacked == _try_stack_item(checked.inventario, item_name, quantity)
        new_item == [DB_ITENS[item_name] EXCEPT !.quantidade = quantity]
    IN  IF ~checked.ok THEN InvResult(inventario, FALSE, "InvalidActionError", None)
        ELSE IF stacked.ok THEN InvResult(stacked.inventario, TRUE, "", "add_stacked")
        ELSE InvResult(Append(checked.inventario, new_item), TRUE, "", "add_new")

remove_item(inventario, item_name, quantity) ==
    IF quantity <= 0 THEN InvResult(inventario, FALSE, "ValueError", None)
    ELSE LET i == FirstNamed(inventario, item_name) IN
         IF i = 0 THEN InvResult(inventario, FALSE, "ResourceNotFoundError", None)
         ELSE IF inventario[i].quantidade < quantity
         THEN InvResult(inventario, FALSE, "InvalidActionError", None)
         ELSE IF inventario[i].quantidade - quantity <= 0
         THEN InvResult(RemoveAt(inventario, i), TRUE, "", "remove")
         ELSE InvResult([inventario EXCEPT ![i].quantidade = @ - quantity], TRUE, "", "remove")

\* use_item: the player after it and what it raises
use_item(player, item_name) ==
    LET i == FirstNamed(player.inventario, item_name) IN
    IF i = 0 THEN [ch |-> player, exc |-> "ResourceNotFoundError", action |-> None]
    ELSE
    LET item == player.inventario[i]
        dead_heal == item.cura_hp > 0 /\ is_dead(player)
        p1 == IF item.cura_hp > 0 THEN heal(player, item.cura_hp) ELSE player
        p2 == IF item.cura_mp > 0 THEN restore_mp(p1, item.cura_mp) ELSE p1
        p3 == IF item.cura_veneno > 0 /\ is_poisoned(p2)
              THEN [p2 EXCEPT !.turnos_veneno = 0, !.dano_por_turno_veneno = 0] ELSE p2
        removed == remove_item(p3.inventario, item_name, 1)
    IN  IF dead_heal THEN [ch |-> player, exc |-> "CharacterStateError", action |-> None]
        ELSE [ch |-> [p3 EXCEPT !.inventario = removed.inventario], exc |-> removed.exc,
              action |-> "use"]

\* n full stacks of another item
RECURSIVE FullStacks(_)
FullStacks(n) ==
    IF n = 0 THEN <<>>
    ELSE Append(FullStacks(n - 1), [DB_ITENS["Pocao de Mana"] EXCEPT !.quantidade = 99])

InvInit ==
    LET \* inventories the manager is handed: empty, one slot short of the limit, at
        \* the limit with a stack that has room, at the limit with full stacks only
        InvInventories ==
            {<<>>,
             Append(FullStacks(48), [DB_ITENS["Pocao de Cura"] EXCEPT !.quantidade = 98]),
             Append(FullStacks(49), [DB_ITENS["Pocao de Cura"] EXCEPT !.quantidade = 1]),
             Append(FullStacks(49), [DB_ITENS["Pocao de Cura"] EXCEPT !.quantidade = 99])}
    IN
        /\ chars \in {[hero |-> [Personagem(5, 2, 3, 1, 2) EXCEPT !.hp = 2, !.inventario = inv],
                       foe |-> Aranha] : inv \in InvInventories}
        /\ current_combat = <<>>
        /\ lastCall = NoCall
        /\ outcome = "ok"
        /\ emitted = <<>>
        /\ started = 0
        /\ fallen = {}
        /\ calc = [kind |-> "inventory", count |-> 0, item_name |-> None, quantity |-> 0,
                   before |-> <<>>]

InvCall(call, item_name, quantity, player, exc, action) ==
    /\ calc.count < MaxInvOps
    /\ calc' = [calc EXCEPT !.count = @ + 1, !.item_name = item_name,
                            !.quantity = quantity, !.before = chars["hero"].inventario]
    /\ chars' = [chars EXCEPT !["hero"] = player]
    /\ lastCall' = call
    /\ outcome' = IF exc = "" THEN "ok" ELSE handle_exceptions(exc)
    /\ emitted' = IF exc = "" THEN <<[type |-> "ITEM_USED", action |-> action]>> ELSE <<>>
    /\ UNCHANGED <<current_combat, started, fallen>>

AddItem ==
    \E item_name \in InvItemNames, quantity \in InvQuantities :
       LET r == add_item(chars["hero"].inventario, item_name, quantity) IN
       InvCall("add_item", item_name, quantity,
               [chars["hero"] EXCEPT !.inventario = r.inventario], r.exc, r.action)

RemoveItem ==
    \E item_name \in InvItemNames, quantity \in InvQuantities :
       LET r == remove_item(chars["hero"].inventario, item_name, quantity) IN
       InvCall("remove_item", item_name, quantity,
               [chars["hero"] EXCEPT !.inventario = r.inventario], r.exc, r.action)

UseItem ==
    \E item_name \in InvItemNames :
       LET r == use_item(chars["hero"], item_name) IN
       InvCall("use_item", item_name, 1, r.ch, r.exc, r.action)

InvNext ==
    \/ AddItem
    \/ RemoveItem
    \/ UseItem

InvSpec == InvInit /\ [][InvNext]_vars

-----------------------------------------------------------------------------
(* Properties *)

HasSession == Len(current_combat) = 1
Ongoing == HasSession /\ current_combat[1].result = ONGOING
Finished == HasSession /\ current_combat[1].result # ONGOING
SessionPlayer == chars[current_combat[1].player]
SessionEnemy == chars[current_combat[1].enemy]
TurnReturned == lastCall \in {"process_player_turn", "process_enemy_turn"} /\ outcome = "ok"

\* C1: after any sequence of start_combat, process_player_turn and process_enemy_turn
\* calls, every Character has 0 <= hp <= hp_max and 0 <= mp <= mp_max.
C1_VitalsInRange ==
    \A c \in CharIds :
        /\ 0 <= chars[c].hp /\ chars[c].hp <= chars[c].hp_max
        /\ 0 <= chars[c].mp /\ chars[c].mp <= chars[c].mp_max

\* an enemy turn has brought the player to exactly 0
C1_Witness ==
    /\ HasSession
    /\ lastCall = "process_enemy_turn" /\ outcome = "ok"
    /\ SessionPlayer.hp = 0

\* C2: once the result of a session is terminal, process_player_turn fails with
\* CombatError, process_enemy_turn returns without doing anything, neither changes the
\* session or a Character, and the result of that session never leaves its value.
C2_TerminalAbsorbing ==
    [][Finished =>
         /\ lastCall' = "process_player_turn" =>
               outcome' = "CombatError" /\ UNCHANGED <<chars, current_combat>>
         /\ lastCall' = "process_enemy_turn" =>
               outcome' = "ok" /\ UNCHANGED <<chars, current_combat>>
         /\ (started' = started /\ Len(current_combat') = 1) =>
               current_combat'[1].result = current_combat[1].result]_vars

\* an enemy turn was asked of a session the player had escaped from
C2_Witness ==
    /\ HasSession /\ current_combat[1].result = ESCAPED
    /\ lastCall = "process_enemy_turn" /\ outcome = "ok"

\* C3: a Character whose hp reached 0 during the session stays at hp 0 for the rest
\* of the session (no later step of any combat call raises it above 0).
C3_DeadStaysDead == \A c \in fallen : chars[c].hp = 0

\* C4: when a turn call returns, the result agrees with the vitals: player at 0 means
\* PlayerDead (also when the enemy is at 0 too), otherwise enemy at 0 means PlayerWin,
\* and Ongoing or Escaped (or no PlayerWin without a dead enemy) only with both alive.
C4_ResultMatchesVitals ==
    (TurnReturned /\ HasSession) =>
        LET result == current_combat[1].result IN
        /\ SessionPlayer.hp = 0 => result = PLAYER_DEAD
        /\ (SessionPlayer.hp > 0 /\ SessionEnemy.hp = 0) => result = PLAYER_WIN
        /\ result \in {ONGOING, ESCAPED} => (SessionPlayer.hp > 0 /\ SessionEnemy.hp > 0)
        /\ result = PLAYER_WIN => SessionEnemy.hp = 0

\* both Characters are at 0 after an enemy turn, and the player's death was reported
C4_Witness ==
    /\ TurnReturned /\ HasSession
    /\ SessionPlayer.hp = 0 /\ SessionEnemy.hp = 0
    /\ current_combat[1].result = PLAYER_DEAD

\* C5: when the player only attacks, every attack takes at least 1 hp from the enemy
\* and never brings it below 0, so an Ongoing session has seen fewer attacks than the
\* enemy had hp; the attack that brings the enemy to 0 sets the result to PlayerWin
\* and emits a COMBAT_END event whose winner is the player.
C5_AttackOnlyWins ==
    /\ [](Ongoing => current_combat[1].turn_count + SessionEnemy.hp <= SessionEnemy.hp_max)
    /\ [][(Ongoing /\ lastCall' = "process_player_turn" /\ outcome' = "ok") =>
            LET enemy == current_combat[1].enemy IN
            /\ chars'[enemy].hp <= chars[enemy].hp - 1
            /\ chars'[enemy].hp >= 0
            /\ Len(current_combat') = 1
            /\ chars'[enemy].hp = 0 =>
                  /\ current_combat'[1].result = PLAYER_WIN
                  /\ \E i \in 1..Len(emitted') :
                        /\ emitted'[i].type = "COMBAT_END"
                        /\ emitted'[i].winner = current_combat[1].player]_vars

\* the armoured enemy fell to as many attacks as it had hp
C5_Witness ==
    /\ HasSession /\ current_combat[1].result = PLAYER_WIN
    /\ current_combat[1].turn_count = SessionEnemy.hp_max
    /\ \E i \in 1..Len(emitted) : emitted[i].type = "COMBAT_END"

\* C6: for every basic attack (critical or not) and every ATAQUE skill, whatever the
\* attack, the total defense and the rolls, the damage handed to take_damage is at
\* least 1 and a living defender loses at least 1 hp.
C6_DamageAtLeastOne ==
    calc.kind \in {"attack", "skill"} =>
        /\ calc.exc = ""
        /\ calc.damage >= 1
        /\ calc.cs.def.hp <= calc.before.def.hp - 1
        /\ calc.cs.def.hp >= 0

\* a critical attack against a defense larger than the attack: the minimum applies
C6_Witness ==
    /\ calc.kind = "attack"
    /\ calc.before.att.nivel = HighNivel
    /\ defesa_total(calc.before.def) > ataque_total(calc.before.att)
    /\ calc.damage = 1
    /\ calc.cs.def.hp = calc.before.def.hp - 1

\* C7: a process_player_turn call that fails with an error leaves turn_count, the log,
\* the result and both Characters (hp, mp, status counters, inventory) as they were.
C7_FailedTurnChangesNothing ==
    [][(lastCall' = "process_player_turn" /\ outcome' # "ok") =>
          UNCHANGED <<chars, current_combat>>]_vars

\* C8: process_player_turn(Skill, name) for a known ability that costs more MP than the
\* player has fails with InsufficientResourcesError and changes no Character and
\* nothing of the session; spend_mp with insufficient MP returns false and changes
\* nothing.
C8_InsufficientMp ==
    /\ [](\A c \in CharIds : \A cost \in 0..(chars[c].mp_max + 3) :
            cost > chars[c].mp =>
               /\ ~spend_mp_returned(chars[c], cost)
               /\ spend_mp(chars[c], cost) = chars[c])
    /\ [][\A name \in SkillNames \ {None} :
            (/\ Ongoing
             /\ is_alive(SessionPlayer)
             /\ FirstNamed(SessionPlayer.habilidades_conhecidas, name) # 0
             /\ SessionPlayer.habilidades_conhecidas[
                    FirstNamed(SessionPlayer.habilidades_conhecidas, name)].custo_mp
                  > SessionPlayer.mp
             /\ process_player_turn("skill", name))
            => /\ outcome' = "InsufficientResourcesError"
               /\ UNCHANGED <<chars, current_combat>>]_vars

\* the player asked for a skill it could not pay
C8_Witness ==
    /\ Ongoing
    /\ lastCall = "process_player_turn"
    /\ outcome = "InsufficientResourcesError"
    /\ \E i \in 1..Len(SessionPlayer.habilidades_conhecidas) :
          SessionPlayer.habilidades_conhecidas[i].custo_mp > SessionPlayer.mp

\* C9: start_combat with a null or dead player or enemy fails with CombatError and
\* neither creates a session nor touches an existing one.
C9_BadStartIsCombatError ==
    [][\A p \in PlayerArgs, e \in EnemyArgs :
          (/\ \/ p = None
              \/ e = None
              \/ is_dead(chars[p])
              \/ is_dead(chars[e])
           /\ start_combat(p, e))
          => /\ outcome' = "CombatError"
             /\ UNCHANGED <<chars, current_combat>>]_vars

\* C10: a successful start_combat leaves exactly one session, with turn_count 0, an
\* empty log and result Ongoing, referencing the Characters passed in, whatever
\* session was there before; there is never more than one session.
C10_FreshSingleSession ==
    /\ [](Len(current_combat) <= 1)
    /\ [][\A p \in PlayerArgs, e \in EnemyArgs :
            (start_combat(p, e) /\ outcome' = "ok") =>
               /\ Len(current_combat') = 1
               /\ current_combat'[1].turn_count = 0
               /\ current_combat'[1].log = <<>>
               /\ current_combat'[1].result = ONGOING
               /\ current_combat'[1].player = p
               /\ current_combat'[1].enemy = e]_vars

\* a second combat was started and its session is fresh
C10_Witness ==
    /\ started = 2
    /\ lastCall = "start_combat" /\ outcome = "ok"
    /\ HasSession
    /\ current_combat[1].turn_count = 0 /\ current_combat[1].log = <<>>
    /\ current_combat[1].result = ONGOING

\* C11: turn_count counts the process_player_turn calls that completed since
\* start_combat: start_combat sets it to 0, each successful player turn (a failed
\* escape roll included) adds exactly 1, and process_enemy_turn, get_combat_state and
\* failed calls leave it as it was.
C11_TurnCountCountsPlayerTurns ==
    /\ [](HasSession =>
            get_combat_state(current_combat, chars).turn_count = current_combat[1].turn_count)
    /\ [][/\ (lastCall' = "start_combat" /\ outcome' = "ok") =>
                current_combat'[1].turn_count = 0
          /\ (HasSession /\ lastCall' = "process_player_turn" /\ outcome' = "ok"
                /\ Len(current_combat') = 1) =>
                current_combat'[1].turn_count = current_combat[1].turn_count + 1
          /\ (HasSession /\ lastCall' = "process_enemy_turn") =>
                /\ Len(current_combat') = 1
                /\ current_combat'[1].turn_count = current_combat[1].turn_count
          /\ (HasSession /\ outcome' # "ok") =>
                /\ Len(current_combat') = 1
                /\ current_combat'[1].turn_count = current_combat[1].turn_count]_vars

\* the second completed player turn was an escape whose roll failed
C11_Witness ==
    /\ Ongoing
    /\ lastCall = "process_player_turn" /\ outcome = "ok"
    /\ current_combat[1].turn_count = 2
    /\ Len(current_combat[1].log) >= 2
    /\ current_combat[1].log[Len(current_combat[1].log)] = "escape_failed"

\* C12: is_combat_active is true exactly when a session exists with result Ongoing;
\* end_combat returns the final snapshot (active with the session's data) and removes
\* the session, after which is_combat_active is false, get_combat_state reports
\* active = false and process_player_turn fails with CombatError until start_combat
\* succeeds; end_combat without a session returns active = false and changes nothing.
C12_EndCombatClears ==
    /\ [](is_combat_active(current_combat) <=>
            (Len(current_combat) = 1 /\ current_combat[1].result = ONGOING))
    /\ [](Len(current_combat) = 0 =>
            /\ ~is_combat_active(current_combat)
            /\ get_combat_state(current_combat, chars) = [active |-> FALSE]
            /\ end_combat_returned(current_combat, chars) = [active |-> FALSE])
    /\ [](Len(current_combat) = 1 =>
            end_combat_returned(current_combat, chars) =
                [active |-> TRUE, player |-> SessionPlayer, enemy |-> SessionEnemy,
                 turn_count |-> current_combat[1].turn_count,
                 log |-> current_combat[1].log, result |-> current_combat[1].result])
    /\ [][/\ lastCall' = "end_combat" =>
                /\ current_combat' = <<>>
                /\ chars' = chars
                /\ outcome' = "ok"
          /\ (Len(current_combat) = 0 /\ lastCall' = "process_player_turn") =>
                /\ outcome' = "CombatError"
                /\ UNCHANGED <<chars, current_combat>>
          /\ (Len(current_combat) = 0 /\ Len(current_combat') = 1) =>
                (lastCall' = "start_combat" /\ outcome' = "ok")]_vars

\* a player turn was refused after end_combat had removed a session
C12_Witness ==
    /\ started >= 1
    /\ Len(current_combat) = 0
    /\ lastCall = "process_player_turn" /\ outcome = "CombatError"

\* C13: for every player level and enemy level the escape chance is
\* escape_base_chance + (player level - enemy level) * 5 clamped into [10, 90]; a roll
\* of 1..100 at or below it sets the result to Escaped, any other roll leaves it
\* Ongoing, and the attempt changes no Character.
C13_EscapeChanceClamped ==
    /\ [](Ongoing =>
            LET raw == escape_base_chance + (SessionPlayer.nivel - SessionEnemy.nivel) * 5
                clamped == IF raw < 10 THEN 10 ELSE IF raw > 90 THEN 90 ELSE raw
            IN  /\ escape_chance(SessionPlayer, SessionEnemy) = clamped
                /\ \A roll \in 1..100 :
                      _process_escape(current_combat[1], chars, current_combat[1].player,
                                      current_combat[1].enemy, roll).session.result
                        = IF roll <= clamped THEN ESCAPED ELSE ONGOING)
    /\ [][(Ongoing /\ is_alive(SessionPlayer) /\ process_player_turn("escape", None)) =>
            /\ outcome' = "ok"
            /\ chars' = chars
            /\ Len(current_combat') = 1
            /\ current_combat'[1].result \in {ESCAPED, ONGOING}]_vars

\* an escape failed although the player is far above the enemy: the chance stops at 90
C13_Witness ==
    /\ Ongoing
    /\ lastCall = "process_player_turn" /\ outcome = "ok"
    /\ SessionPlayer.nivel - SessionEnemy.nivel >= 7
    /\ current_combat[1].log = <<"escape_failed">>

\* C14: a successful process_player_turn(Item, name) lowers the quantity the player
\* holds of that item by exactly 1, removing the stack when it reaches 0, whether or
\* not an effect was applied, and touches no other item; when the player holds no item
\* of that name the call fails with ResourceNotFoundError and nothing changes.
C14_ItemUseConsumesOne ==
    [][\A name \in ItemNames \ {None} :
          (Ongoing /\ is_alive(SessionPlayer) /\ process_player_turn("item", name)) =>
             LET p == current_combat[1].player
                 before == chars[p].inventario
                 after == chars'[p].inventario
             IN  IF QtyHeld(before, name) = 0
                 THEN /\ outcome' = "ResourceNotFoundError"
                      /\ UNCHANGED <<chars, current_combat>>
                 ELSE /\ outcome' = "ok"
                      /\ QtyHeld(after, name) = QtyHeld(before, name) - 1
                      /\ \A other \in ItemNames \ {None, name} :
                            QtyHeld(after, other) = QtyHeld(before, other)
                      /\ \A i \in 1..Len(after) : after[i].quantidade >= 1
                      /\ Len(after) = IF before[FirstNamed(before, name)].quantidade = 1
                                      THEN Len(before) - 1 ELSE Len(before)]_vars

\* an item without any effect was used and one unit of its stack is left
C14_Witness ==
    /\ HasSession
    /\ lastCall = "process_player_turn" /\ outcome = "ok"
    /\ current_combat[1].log = <<"nothing_happens">>
    /\ QtyHeld(SessionPlayer.inventario, "Pedra") = 1

\* C15: process_enemy_turn on an Ongoing session whose enemy has abilities and MP never
\* raises to the caller: a chosen skill that cannot be executed is replaced by one
\* basic attack, and the turn goes on (the log grows, the session stays).
C15_EnemyTurnNeverRaises ==
    [][(/\ Ongoing
        /\ Len(SessionEnemy.habilidades_conhecidas) > 0
        /\ SessionEnemy.mp > 0
        /\ lastCall' = "process_enemy_turn") =>
          /\ outcome' = "ok"
          /\ Len(current_combat') = 1
          /\ Len(current_combat'[1].log) > Len(current_combat[1].log)
          /\ (\A i \in 1..Len(SessionEnemy.habilidades_conhecidas) :
                 ~can_use_skill(SessionEnemy, SessionEnemy.habilidades_conhecidas[i]))
               => \E j \in (Len(current_combat[1].log) + 1)..Len(current_combat'[1].log) :
                     current_combat'[1].log[j] = "attack"]_vars

\* C16: when the end-of-combat evaluation of a turn finds the integrity of the session
\* violated (negative hp, hp_max <= 0), the turn does not raise, a COMBAT_ERROR event
\* is emitted, and the session is terminated with result PlayerWin, which the returned
\* snapshot reports.
C16_CorruptedSessionEndsAsWin ==
    [][(/\ Len(current_combat) = 1
        /\ current_combat[1].result = ONGOING
        /\ ~_validate_combat_state(current_combat[1], chars')
        /\ \/ /\ is_alive(SessionPlayer)
              /\ \/ process_player_turn("escape", None)
                 \/ process_player_turn("attack", None)
           \/ process_enemy_turn) =>
          /\ outcome' = "ok"
          /\ \E i \in 1..Len(emitted') : emitted'[i].type = "COMBAT_ERROR"
          /\ Len(current_combat') = 1
          /\ current_combat'[1].result = PLAYER_WIN
          /\ get_combat_state(current_combat', chars').result = PLAYER_WIN]_vars

\* C17: for every Character and every amount >= 0, take_damage(amount) returns
\* min(amount, hp) and leaves hp = max(0, old hp - amount); for a negative amount it
\* fails and leaves hp as it was.
C17_TakeDamage ==
    calc.kind = "take_damage" =>
        IF calc.amount >= 0
        THEN /\ calc.exc = ""
             /\ calc.returned = (IF calc.amount < calc.before.hp THEN calc.amount
                                 ELSE calc.before.hp)
             /\ calc.ch.hp = (IF calc.before.hp - calc.amount > 0
                              THEN calc.before.hp - calc.amount ELSE 0)
             /\ calc.ch = [calc.before EXCEPT !.hp = calc.ch.hp]
        ELSE /\ calc.exc = "ValueError"
             /\ calc.ch = calc.before

\* more damage than the Character had hp: the excess is not returned
C17_Witness ==
    /\ calc.kind = "take_damage"
    /\ calc.before.hp = 2 /\ calc.amount = 3
    /\ calc.returned = 2 /\ calc.ch.hp = 0

\* C18: heal(amount) on a Character with hp = 0 fails with CharacterStateError and
\* leaves hp at 0; on a living Character it sets hp = min(hp_max, hp + amount) and
\* returns exactly the hp restored.
C18_Heal ==
    calc.kind = "heal" =>
        IF calc.before.hp = 0
        THEN /\ calc.exc = "CharacterStateError"
             /\ calc.ch = calc.before
        ELSE /\ calc.exc = ""
             /\ calc.ch.hp = (IF calc.before.hp + calc.amount < calc.before.hp_max
                              THEN calc.before.hp + calc.amount ELSE calc.before.hp_max)
             /\ calc.returned = calc.ch.hp - calc.before.hp
             /\ calc.ch = [calc.before EXCEPT !.hp = calc.ch.hp]

\* a heal larger than the missing hp: only the missing hp is returned
C18_Witness ==
    /\ calc.kind = "heal"
    /\ calc.before.hp = 2 /\ calc.before.hp_max = 3 /\ calc.amount = 3
    /\ calc.returned = 1 /\ calc.ch.hp = 3

\* C19 as stated: for every Character with turnos_veneno > 0, one
\* process_status_effects call lowers hp by min(dano_por_turno_veneno, hp), lowers
\* turnos_veneno by exactly 1 and emits a damage message; when turnos_veneno reaches 0
\* it resets dano_por_turno_veneno to 0 and emits a cure message after the damage message.
C19_PoisonTickAsStated ==
    (calc.kind = "status" /\ calc.before.turnos_veneno > 0) =>
        LET b == calc.before
            lost == IF b.dano_por_turno_veneno < b.hp THEN b.dano_por_turno_veneno ELSE b.hp
        IN  /\ calc.ch.hp = b.hp - lost
            /\ calc.ch.turnos_veneno = b.turnos_veneno - 1
            /\ Len(calc.messages) >= 1 /\ calc.messages[1] = "poison_damage"
            /\ calc.ch.turnos_veneno = 0 =>
                  /\ calc.ch.dano_por_turno_veneno = 0
                  /\ Len(calc.messages) >= 2 /\ calc.messages[2] = "poison_cured"

\* C19, amended: the poison step does what C19 says, and the hp after the call is the
\* poisoned hp when no regeneration is running; when turnos_regeneracao > 0 the same
\* call then adds min(5, hp_max - hp) to the poisoned hp.
C19_PoisonTick ==
    (calc.kind = "status" /\ calc.before.turnos_veneno > 0) =>
        LET b == calc.before
            lost == IF b.dano_por_turno_veneno < b.hp THEN b.dano_por_turno_veneno ELSE b.hp
            poisoned == b.hp - lost
            missing == b.hp_max - poisoned
            regen == IF b.turnos_regeneracao > 0
                     THEN (IF missing < 5 THEN missing ELSE 5) ELSE 0
        IN  /\ calc.ch.hp = poisoned + regen
            /\ calc.ch.turnos_veneno = b.turnos_veneno - 1
            /\ Len(calc.messages) >= 1 /\ calc.messages[1] = "poison_damage"
            /\ IF calc.ch.turnos_veneno = 0
               THEN /\ calc.ch.dano_por_turno_veneno = 0
                    /\ Len(calc.messages) >= 2 /\ calc.messages[2] = "poison_cured"
               ELSE /\ calc.ch.dano_por_turno_veneno = b.dano_por_turno_veneno
                    /\ \A i \in 1..Len(calc.messages) : calc.messages[i] # "poison_cured"

\* the last turn of a poison on a Character whose regeneration is running
C19_Witness ==
    /\ calc.kind = "status"
    /\ calc.before.turnos_veneno = 1 /\ calc.before.dano_por_turno_veneno = 1
    /\ calc.before.hp = 2 /\ calc.before.hp_max = 3 /\ calc.before.turnos_regeneracao = 1
    /\ calc.ch.hp = 3 /\ calc.ch.turnos_veneno = 0 /\ calc.ch.dano_por_turno_veneno = 0
    /\ calc.messages = <<"poison_damage", "poison_cured", "regenerates", "regeneracao_ends">>

C21_EffectivenessLookup ==
    calc.kind = "get_effectiveness" =>
        /\ calc.exc = None
        /\ (calc.attacker = "DIVINO" /\ calc.defender = "SOMBRA") => calc.value = 20
        /\ (calc.attacker = "FOGO" /\ calc.defender = "GELO") => calc.value = 15
        /\ (calc.attacker = "GELO" /\ calc.defender = "FOGO") => calc.value = 5
        /\ (calc.attacker = calc.defender /\ calc.attacker \in {"FOGO", "GELO", "SOMBRA", "LUZ", "ARCANO", "DIVINO"})
              => calc.value = 5


\* C22: an LRUCache never holds more than max_size entries, and the entry a
\* set of a new key pushes out is the one whose last set or successful read
\* is the oldest.
C22_LruEviction ==
    /\ Len(calc.cache) <= calc.max_size
    /\ (calc.op = "set" /\ Len(calc.before) = calc.max_size
         /\ CachePos(calc.before, calc.key) = 0)
          => /\ Len(calc.evicted) = 1
             /\ \E i \in 1..Len(calc.before) : calc.before[i].key = calc.evicted[1].key
             /\ \A i \in 1..Len(calc.before) :
                   calc.before[i].key # calc.evicted[1].key
                      => calc.before[i].last_accessed > calc.evicted[1].last_accessed
    /\ (calc.op # "set" \/ Len(calc.before) < calc.max_size
         \/ CachePos(calc.before, calc.key) # 0) => calc.evicted = <<>>

\* a set pushed out an entry that was created after an entry that stays: the
\* older one was read or set again in between
C22_Witness ==
    /\ calc.op = "set"
    /\ Len(calc.evicted) = 1
    /\ \E i \in 1..Len(calc.cache) :
          /\ calc.cache[i].created_at < calc.evicted[1].created_at
          /\ calc.cache[i].last_accessed > calc.evicted[1].last_accessed


\* C23: emit(t) invokes every handler subscribed to t exactly once and no
\* other handler, whatever the handlers do (return, raise, or call back into
\* the manager), and nothing reaches the emitter.
C23_EmitInvokesEachOnce ==
    calc.op = "emit" =>
        /\ calc.exc = None
        /\ \A i \in 1..Len(calc.invoked) : calc.invoked[i] \in Range(calc.before[calc.type])
        /\ \A h \in Handlers :
              h \in Range(calc.before[calc.type])
                 => Cardinality({i \in 1..Len(calc.invoked) : calc.invoked[i] = h}) = 1


\* C24: the four status counters are never negative, defesa_total carries the
\* +5 bonus exactly while the defense buff runs, a usable defense-buff ability
\* sets turnos_buff_defesa to 3 and a usable regeneration ability sets
\* turnos_regeneracao to 5.
C24_StatusCounters ==
    /\ \A c \in CharIds :
          /\ chars[c].turnos_veneno >= 0
          /\ chars[c].turnos_buff_defesa >= 0
          /\ chars[c].turnos_furia >= 0
          /\ chars[c].turnos_regeneracao >= 0
          /\ defesa_total(chars[c]) =
                chars[c].defesa_base + chars[c].armadura_bonus_defesa
                  + chars[c].escudo_bonus_defesa
                  + (IF chars[c].turnos_buff_defesa > 0 THEN 5 ELSE 0)
    /\ (calc.kind = "skill" /\ calc.usable /\ calc.skill_name = "Postura")
          => outcome = "ok" /\ chars["hero"].turnos_buff_defesa = 3
    /\ (calc.kind = "skill" /\ calc.usable /\ calc.skill_name = "Regeneracao Vital")
          => outcome = "ok" /\ chars["hero"].turnos_regeneracao = 5


\* C25: the session-integrity check rejects every session in which a Character
\* is missing, a required number is negative, or a Character has hp > hp_max.
C25_ValidationRejectsCorrupted ==
    (/\ calc.kind = "validated"
     /\ \/ calc.session.player = None
        \/ calc.session.enemy = None
        \/ \E c \in CharIds : calc.cs[c].hp < 0 \/ calc.cs[c].hp_max < 0
        \/ \E c \in CharIds : calc.cs[c].hp > calc.cs[c].hp_max
        \/ calc.cs["hero"].mp < 0
        \/ calc.cs["hero"].mp_max < 0
        \/ calc.cs["foe"].ataque_base < 0
        \/ calc.cs["foe"].defesa_base < 0)
       => ~calc.valid


\* C26: over any sequence of get_next_action calls each special trigger fires
\* at most once; the trigger that fires on a call is the first in declaration
\* order that is unused and whose condition holds (and one does fire when there
\* is such a trigger); a first_turn trigger fires only on the first call; and a
\* call on which a trigger fires chooses no pattern action and records none.
C26_TriggersFireOnceInOrder ==
    /\ [](\A i \in 1..Len(calc.fired) : calc.fired[i] <= 1)
    /\ [][LET f == calc'.returned.trigger
              Ready(i) == /\ ~calc.special_conditions[i].used
                          /\ should_trigger(calc.special_conditions[i], calc'.turn_count,
                                            calc'.enemy, calc'.player)
          IN  /\ f # 0 =>
                    /\ Ready(f)
                    /\ \A j \in 1..(f - 1) : ~Ready(j)
                    /\ calc'.special_conditions[f].used
                    /\ calc.special_conditions[f].trigger = "first_turn" => calc.turn_count = 0
                    /\ calc'.returned.via = "special"
                    /\ calc'.returned.name = None
                    /\ calc'.returned.type = calc.special_conditions[f].action
                    /\ calc'.action_history = calc.action_history
              /\ f = 0 => \A i \in 1..Len(calc.special_conditions) : ~Ready(i)
              /\ \A i \in 1..Len(calc.special_conditions) :
                    i # f => calc'.special_conditions[i] = calc.special_conditions[i]
         ]_vars

\* the second low_hp trigger fired after the first one had been used, on a call
\* where an earlier trigger's condition did not hold
C26_Witness ==
    /\ calc.kind = "ai"
    /\ calc.returned.trigger = 4
    /\ calc.fired[2] = 1
    /\ ~calc.special_conditions[3].used


\* C27: when get_next_action is given Characters of the combat model, triggers
\* and pattern conditions are decided by the Characters' current hp / hp_max and
\* mp / mp_max: an unused trigger whose condition holds on those fractions
\* fires, a pattern action comes from a pattern whose condition holds on them,
\* and the fallback attack is returned only when no pattern's condition holds.
C27_ConditionsUseActualFractions ==
    [][(calc'.enemy.shape = "Personagem" /\ calc'.player.shape = "Personagem") =>
          LET f == calc'.returned.trigger
              enemy == [calc'.enemy EXCEPT !.shape = "atual"]
              player == [calc'.player EXCEPT !.shape = "atual"]
              Holds(i) == should_trigger(calc.special_conditions[i], calc'.turn_count,
                                         enemy, player)
              Applies(p) == _evaluate_condition(calc.attack_patterns[p].condition,
                                                calc'.turn_count, enemy, player)
          IN  /\ f # 0 => Holds(f)
              /\ (\E i \in 1..Len(calc.special_conditions) :
                     ~calc.special_conditions[i].used /\ Holds(i)) => f # 0
              /\ calc'.returned.via = "pattern" =>
                    \E p \in 1..Len(calc.attack_patterns) :
                       /\ Applies(p)
                       /\ calc'.returned.name \in Range(calc.attack_patterns[p].actions)
              /\ calc'.returned.via = "fallback" =>
                    \A p \in 1..Len(calc.attack_patterns) : ~Applies(p)
      ]_vars


\* C28: a Cunning enemy whose chosen pattern holds an action other than the
\* last two actions it took never selects one of those last two actions, for
\* every action name of the vocabulary.
C28_CunningAvoidsRecentActions ==
    [][(/\ calc.personality = "CUNNING"
        /\ calc'.returned.via = "pattern"
        /\ \E a \in Range(calc.attack_patterns[calc'.returned.pattern].actions) :
              a \notin Range(calc.taken))
          => calc'.returned.name \notin Range(calc.taken)
      ]_vars

\* C29: for an enemy Character a use_ability descriptor names a known ability
\* the enemy's MP can pay for, carries no ability exactly when none can be
\* paid for, and no call fails because of the enemy's abilities.
C29_AbilityAffordable ==
    (calc.turn_count > 0 /\ calc.enemy.shape = "Personagem") =>
        LET affordable == {s \in Range(calc.enemy.habilidades_conhecidas) :
                              s.custo_mp <= calc.enemy.mp}
        IN  /\ calc.exc = None
            /\ calc.returned.name = "use_ability" =>
                  /\ calc.returned.type = "ability"
                  /\ (calc.returned.ability = None) <=> (affordable = {})
                  /\ calc.returned.ability # None =>
                        \E s \in affordable : s.nome = calc.returned.ability


\* C30: every stack of the player's inventory holds between 1 and stack_max
\* units, and a successful add_item(player, name, q) raises the quantity held
\* of that item by exactly q, also when the inventory is at its 50 slots and
\* the item goes onto a stack.
C30_AddItemAddsExactly ==
    /\ \A i \in 1..Len(chars["hero"].inventario) :
          /\ chars["hero"].inventario[i].quantidade >= 1
          /\ chars["hero"].inventario[i].quantidade <= chars["hero"].inventario[i].stack_max
    /\ (lastCall = "add_item" /\ outcome = "ok")
          => QtyHeld(chars["hero"].inventario, calc.item_name)
                = QtyHeld(calc.before, calc.item_name) + calc.quantity

=============================================================================
